---- MODULE Spec2Model ----
(***************************************************************************)
(* PyDotPwn: the traversal payload generator (core/traversal_engine.py),   *)
(* the bisection search (core/bisection_algorithm.py) and the protocol     *)
(* fuzzing drivers with their probes (protocols/*.py).                     *)
(*                                                                         *)
(* A Python str is a sequence of one-character strings, so that            *)
(* repetition, replacement, stripping and substring tests are computed     *)
(* the way the code computes them.  None and the empty string, which the   *)
(* code tests alike ("if specific_file:", "if extension:"), are both the   *)
(* empty sequence; bisection_depth None and 0 ("if bisection_depth") are   *)
(* both 0.                                                                 *)
(***************************************************************************)
EXTENDS Integers, Sequences, FiniteSets, TLC

(***************************************************************************)
(* Bounds of the model.  The tables of the engine are kept whole; the     *)
(* generator reads a prefix of each, of the length given here.            *)
(***************************************************************************)
NDots == 2
NSlashes == 7
NSpecial == 20
NNonRec == 4
NCore == 3
NExt == 2
NNull == 2
NPrefix == 1
NAbsFiles == 1
MaxDepth == 3

(***************************************************************************)
(* str helpers                                                             *)
(***************************************************************************)
\* min(a, b)
Min(a, b) == IF a <= b THEN a ELSE b

\* seq[:n]
Take(seq, n) == SubSeq(seq, 1, Min(n, Len(seq)))

\* s * k
Rep(s, k) == [i \in 1..(k * Len(s)) |-> s[((i - 1) % Len(s)) + 1]]

\* concatenation of a list of lists, in order
RECURSIVE FlatRange(_, _, _)
FlatRange(ss, lo, hi) ==
  IF lo > hi THEN <<>>
  ELSE IF lo = hi THEN ss[lo]
       ELSE FlatRange(ss, lo, (lo + hi) \div 2) \o FlatRange(ss, (lo + hi) \div 2 + 1, hi)

Flat(ss) == FlatRange(ss, 1, Len(ss))

\* sub in s (sub not empty)
Contains(s, sub) ==
  \E i \in 1..(Len(s) - Len(sub) + 1) : SubSeq(s, i, i + Len(sub) - 1) = sub

\* s.startswith(sub)
StartsWith(s, sub) == Len(sub) <= Len(s) /\ SubSeq(s, 1, Len(sub)) = sub

\* s.replace(old, new): the occurrences of old, left to right, not overlapping
RECURSIVE Replace(_, _, _)
Replace(s, old, new) ==
  IF Len(s) < Len(old) THEN s
  ELSE IF SubSeq(s, 1, Len(old)) = old
       THEN new \o Replace(SubSeq(s, Len(old) + 1, Len(s)), old, new)
       ELSE <<s[1]>> \o Replace(Tail(s), old, new)

\* s.lstrip(c) for a single character c
RECURSIVE LStrip(_, _)
LStrip(s, c) == IF s # <<>> /\ s[1] = c THEN LStrip(Tail(s), c) ELSE s

LowerChar(c) ==
  CASE c = "A" -> "a" [] c = "B" -> "b" [] c = "C" -> "c" [] c = "D" -> "d"
    [] c = "E" -> "e" [] c = "F" -> "f" [] c = "G" -> "g" [] c = "H" -> "h"
    [] c = "I" -> "i" [] c = "J" -> "j" [] c = "K" -> "k" [] c = "L" -> "l"
    [] c = "M" -> "m" [] c = "N" -> "n" [] c = "O" -> "o" [] c = "P" -> "p"
    [] c = "Q" -> "q" [] c = "R" -> "r" [] c = "S" -> "s" [] c = "T" -> "t"
    [] c = "U" -> "u" [] c = "V" -> "v" [] c = "W" -> "w" [] c = "X" -> "x"
    [] c = "Y" -> "y" [] c = "Z" -> "z" [] OTHER -> c

\* s.lower()
Lower(s) == [i \in 1..Len(s) |-> LowerChar(s[i])]

\* the first occurrence of every element, in order
Dedup(seq) ==
  LET first == SelectSeq([i \in 1..Len(seq) |-> i],
                         LAMBDA i : \A j \in 1..(i - 1) : seq[j] # seq[i])
  IN [n \in 1..Len(first) |-> seq[first[n]]]

(***************************************************************************)
(* The tables of TraversalEngine                                           *)
(***************************************************************************)
WINDOWS_FILES ==
  << <<"b", "o", "o", "t", ".", "i", "n", "i">>
   , <<"\\", "w", "i", "n", "d", "o", "w", "s", "\\", "w", "i", "n", ".", "i", "n", "i">>
   , <<"\\", "w", "i", "n", "d", "o", "w", "s", "\\", "s", "y", "s", "t", "e", "m", "3", "2", "\\", "d", "r", "i", "v", "e", "r", "s", "\\", "e", "t", "c", "\\", "h", "o", "s", "t", "s">>
  >>

UNIX_FILES ==
  << <<"/", "e", "t", "c", "/", "p", "a", "s", "s", "w", "d">>
   , <<"/", "e", "t", "c", "/", "i", "s", "s", "u", "e">>
  >>

EXTRA_FILES ==
  << <<"c", "o", "n", "f", "i", "g", ".", "i", "n", "c", ".", "p", "h", "p">>
   , <<"w", "e", "b", ".", "c", "o", "n", "f", "i", "g">>
  >>

DOTS ==
  << <<".", ".">>
   , <<".", "%", "0", "0", ".">>
   , <<".", ".", "%", "0", "0">>
   , <<".", ".", "%", "0", "1">>
   , <<".", ".", "%", "2", "5", "0", "0">>
   , <<".", ".", "%", "2", "5", "2", "5", "0", "0">>
   , <<".", ".", "%", "2", "5", "2", "5", "2", "5", "0", "0">>
   , <<".", "?">>
   , <<"?", "?">>
   , <<"?", ".">>
   , <<"%", "5", "C", ".", ".">>
   , <<".", "%", "2", "e">>
   , <<"%", "2", "e", ".">>
   , <<".", ".", ".", "/", ".">>
   , <<".", ".", ".", ".", "/">>
   , <<"%", "2", "e", "%", "2", "e">>
   , <<"%", "2", "5", "2", "e", "%", "2", "5", "2", "e">>
   , <<"%", "2", "5", "2", "5", "2", "e", "%", "2", "5", "2", "5", "2", "e">>
   , <<"%", "2", "5", "2", "5", "2", "5", "2", "e", "%", "2", "5", "2", "5", "2", "5", "2", "e">>
   , <<"%", "2", "5", "2", "5", "2", "5", "2", "5", "2", "e", "%", "2", "5", "2", "5", "2", "5", "2", "5", "2", "e">>
   , <<"%", "%", "c", "0", "%", "6", "e", "%", "c", "0", "%", "6", "e">>
   , <<"0", "x", "2", "e", "0", "x", "2", "e">>
   , <<"%", "c", "0", ".", "%", "c", "0", ".">>
   , <<"%", "c", "0", "%", "2", "e", "%", "c", "0", "%", "2", "e">>
   , <<"%", "c", "0", "%", "a", "e", "%", "c", "0", "%", "a", "e">>
   , <<"%", "c", "0", "%", "5", "e", "%", "c", "0", "%", "5", "e">>
   , <<"%", "c", "0", "%", "e", "e", "%", "c", "0", "%", "e", "e">>
   , <<"%", "c", "0", "%", "f", "e", "%", "c", "0", "%", "f", "e">>
   , <<"%", "u", "f", "f", "0", "e", "%", "u", "f", "f", "0", "e">>
   , <<"%", "%", "3", "2", "%", "%", "6", "5", "%", "%", "3", "2", "%", "%", "6", "5">>
   , <<"%", "e", "0", "%", "8", "0", "%", "a", "e", "%", "e", "0", "%", "8", "0", "%", "a", "e">>
   , <<"%", "2", "5", "c", "0", "%", "2", "5", "a", "e", "%", "2", "5", "c", "0", "%", "2", "5", "a", "e">>
   , <<"%", "f", "0", "%", "8", "0", "%", "8", "0", "%", "a", "e", "%", "f", "0", "%", "8", "0", "%", "8", "0", "%", "a", "e">>
   , <<"%", "f", "8", "%", "8", "0", "%", "8", "0", "%", "8", "0", "%", "a", "e", "%", "f", "8", "%", "8", "0", "%", "8", "0", "%", "8", "0", "%", "a", "e">>
   , <<"%", "f", "c", "%", "8", "0", "%", "8", "0", "%", "8", "0", "%", "8", "0", "%", "a", "e", "%", "f", "c", "%", "8", "0", "%", "8", "0", "%", "8", "0", "%", "8", "0", "%", "a", "e">>
   , <<"%", "2", "5", "2", "e", "%", "2", "e">>
   , <<"%", "2", "5", "2", "5", "2", "e", "%", "2", "5", "2", "e">>
   , <<"%", "2", "e", "%", "2", "5", "2", "e">>
   , <<"%", "2", "E", "%", "2", "E">>
   , <<"%", "2", "5", "2", "E", "%", "2", "5", "2", "E">>
   , <<"%", "2", "5", "2", "5", "2", "E", "%", "2", "5", "2", "5", "2", "E">>
   , <<"%", "c", "0", "%", "a", "e", "%", "2", "5", "2", "e">>
   , <<"%", "e", "0", "%", "8", "0", "%", "a", "e", "%", "2", "5", "2", "5", "2", "e">>
   , <<"%", "2", "5", "2", "e", "%", "c", "0", "%", "a", "e">>
   , <<"%", "2", "5", "2", "5", "2", "e", "%", "e", "0", "%", "8", "0", "%", "a", "e">>
   , <<".", ".", "%", "0", "0", "%", "2", "e">>
   , <<"%", "2", "e", "%", "0", "0", "%", "2", "e">>
   , <<"%", "2", "e", "%", "2", "e", "%", "0", "0">>
   , <<".", ".", "%", "c", "0", "%", "8", "0">>
   , <<"%", "c", "0", "%", "8", "0", "%", "c", "0", "%", "8", "0">>
   , <<".", ".", "%", "u", "0", "0", "0", "0">>
   , <<"%", "u", "0", "0", "0", "0", "%", "u", "0", "0", "0", "0">>
   , <<".", ".", "%", "0", "1", "%", "0", "2">>
   , <<"%", "0", "2", "%", "2", "e", "%", "0", "1">>
   , <<".", ".", "%", "0", "a", "%", "2", "e">>
   , <<"%", "2", "e", "%", "0", "d", "%", "2", "e">>
  >>

SLASHES ==
  << <<"/">>
   , <<"\\", "\\">>
   , <<"%", "2", "f">>
   , <<"%", "5", "c">>
   , <<"0", "x", "2", "f">>
   , <<"0", "x", "5", "c">>
   , <<"%", "2", "5", "2", "f">>
   , <<"%", "2", "5", "5", "c">>
   , <<"%", "2", "5", "2", "f", "/">>
   , <<"%", "2", "5", "5", "c", "\\">>
   , <<"%", "2", "5", "2", "5", "2", "f">>
   , <<"%", "2", "5", "2", "5", "5", "c">>
   , <<"%", "2", "5", "2", "5", "2", "f", "/">>
   , <<"%", "2", "5", "2", "5", "5", "c", "\\">>
   , <<"%", "2", "5", "2", "5", "2", "5", "2", "f">>
   , <<"%", "2", "5", "2", "5", "2", "5", "5", "c">>
   , <<"%", "2", "5", "2", "5", "2", "5", "2", "f", "/">>
   , <<"%", "2", "5", "2", "5", "2", "5", "5", "c", "\\">>
   , <<"%", "2", "5", "2", "5", "2", "5", "2", "5", "2", "f">>
   , <<"%", "2", "5", "2", "5", "2", "5", "2", "5", "5", "c">>
   , <<"%", "2", "5", "2", "5", "2", "5", "2", "5", "2", "f", "/">>
   , <<"%", "2", "5", "2", "5", "2", "5", "2", "5", "5", "c", "\\">>
   , <<"%", "c", "0", "%", "2", "f">>
   , <<"%", "c", "0", "%", "a", "f">>
   , <<"%", "c", "0", "%", "5", "c">>
   , <<"%", "c", "1", "%", "9", "c">>
   , <<"%", "c", "1", "%", "p", "c">>
   , <<"%", "c", "0", "%", "9", "v">>
   , <<"%", "c", "0", "%", "q", "f">>
   , <<"%", "c", "1", "%", "8", "s">>
   , <<"%", "c", "1", "%", "1", "c">>
   , <<"%", "c", "1", "%", "a", "f">>
   , <<"%", "b", "g", "%", "q", "f">>
   , <<"%", "u", "2", "2", "1", "5">>
   , <<"%", "u", "2", "2", "1", "6">>
   , <<"%", "u", "E", "F", "C", "8">>
   , <<"%", "u", "F", "0", "2", "5">>
   , <<"%", "%", "3", "2", "%", "%", "6", "6">>
   , <<"%", "%", "3", "5", "%", "%", "6", "3">>
   , <<"%", "e", "0", "%", "8", "0", "%", "a", "f">>
   , <<"%", "2", "5", "c", "1", "%", "2", "5", "9", "c">>
   , <<"%", "2", "5", "c", "0", "%", "2", "5", "a", "f">>
   , <<"%", "f", "0", "%", "8", "0", "%", "8", "0", "%", "a", "f">>
   , <<"%", "f", "8", "%", "8", "0", "%", "8", "0", "%", "8", "0", "%", "a", "f">>
   , <<"%", "2", "5", "2", "f", "%", "2", "f">>
   , <<"%", "2", "5", "2", "5", "2", "f", "%", "2", "5", "2", "f">>
   , <<"%", "2", "f", "%", "2", "5", "2", "f">>
   , <<"%", "5", "c", "%", "2", "5", "5", "c">>
   , <<"%", "2", "5", "5", "c", "%", "2", "5", "2", "5", "5", "c">>
   , <<"%", "2", "F">>
   , <<"%", "5", "C">>
   , <<"%", "2", "5", "2", "F">>
   , <<"%", "2", "5", "5", "C">>
   , <<"%", "2", "5", "2", "5", "2", "F">>
   , <<"%", "2", "5", "2", "5", "5", "C">>
   , <<"%", "2", "5", "2", "e", "%", "2", "5", "2", "e", "%", "2", "5", "2", "f">>
   , <<"%", "2", "5", "2", "5", "2", "e", "%", "2", "5", "2", "5", "2", "e", "%", "2", "5", "2", "5", "2", "f">>
   , <<"%", "c", "0", "%", "a", "f", "%", "2", "5", "2", "f">>
   , <<"%", "e", "0", "%", "8", "0", "%", "a", "f", "%", "2", "5", "2", "5", "2", "f">>
   , <<"%", "2", "5", "2", "f", "%", "c", "0", "%", "a", "f">>
   , <<"%", "2", "5", "2", "5", "2", "f", "%", "e", "0", "%", "8", "0", "%", "a", "f">>
   , <<"/", "%", "0", "0">>
   , <<"%", "0", "0", "/">>
   , <<"%", "2", "f", "%", "0", "0">>
   , <<"%", "0", "0", "%", "2", "f">>
   , <<"\\", "%", "0", "0">>
   , <<"%", "0", "0", "\\">>
   , <<"%", "5", "c", "%", "0", "0">>
   , <<"%", "0", "0", "%", "5", "c">>
   , <<"%", "2", "5", "0", "0", "%", "2", "f">>
   , <<"%", "2", "f", "%", "2", "5", "0", "0">>
   , <<"%", "2", "5", "0", "0", "%", "5", "c">>
   , <<"%", "5", "c", "%", "2", "5", "0", "0">>
   , <<"/", "%", "c", "0", "%", "8", "0">>
   , <<"%", "c", "0", "%", "8", "0", "/">>
   , <<"\\", "%", "c", "0", "%", "8", "0">>
   , <<"%", "c", "0", "%", "8", "0", "\\">>
   , <<"/", "%", "u", "0", "0", "0", "0">>
   , <<"%", "u", "0", "0", "0", "0", "/">>
   , <<"\\", "%", "u", "0", "0", "0", "0">>
   , <<"%", "u", "0", "0", "0", "0", "\\">>
   , <<"/", "%", "0", "1">>
   , <<"%", "0", "1", "/">>
   , <<"/", "%", "0", "2">>
   , <<"%", "0", "2", "/">>
   , <<"\\", "%", "0", "1">>
   , <<"%", "0", "1", "\\">>
   , <<"\\", "%", "0", "2">>
   , <<"%", "0", "2", "\\">>
   , <<"/", "%", "0", "a">>
   , <<"%", "0", "a", "/">>
   , <<"/", "%", "0", "d">>
   , <<"%", "0", "d", "/">>
   , <<"\\", "%", "0", "a">>
   , <<"%", "0", "a", "\\">>
   , <<"\\", "%", "0", "d">>
   , <<"%", "0", "d", "\\">>
   , <<"/", " ">>
   , <<" ", "/">>
   , <<"\\", " ">>
   , <<" ", "\\">>
   , <<"/", "%", "2", "0">>
   , <<"%", "2", "0", "/">>
   , <<"\\", "%", "2", "0">>
   , <<"%", "2", "0", "\\">>
   , <<"%", "2", "5", "2", "0", "%", "2", "f">>
   , <<"%", "2", "f", "%", "2", "5", "2", "0">>
   , <<"%", "2", "5", "2", "0", "%", "5", "c">>
   , <<"%", "5", "c", "%", "2", "5", "2", "0">>
  >>

SPECIAL_PATTERNS ==
  << <<".", ".", "/", "/">>
   , <<".", ".", "/", "/", "/">>
   , <<".", ".", "\\", "\\", "\\", "\\">>
   , <<".", ".", "\\", "\\", "\\", "\\", "\\", "\\">>
   , <<".", ".", "/", "\\", "\\">>
   , <<".", ".", "\\", "\\", "/">>
   , <<".", ".", "/", "\\", "\\", "/">>
   , <<".", ".", "\\", "\\", "/", "\\", "\\">>
   , <<"\\", "\\", ".", ".", "/">>
   , <<"/", ".", ".", "\\", "\\">>
   , <<".", ".", ".", "/">>
   , <<".", ".", ".", "\\", "\\">>
   , <<".", "/", ".", ".", "/">>
   , <<".", "\\", "\\", ".", ".", "\\", "\\">>
   , <<".", "/", "/", ".", ".", "/", "/", "/">>
   , <<".", "\\", "\\", "\\", "\\", ".", ".", "\\", "\\", "\\", "\\">>
   , <<".", ".", ".", ".", ".", ".", "/", "/", "/">>
   , <<"%", "2", "e", "%", "c", "0", "%", "a", "e", "%", "5", "c">>
   , <<"%", "2", "e", "%", "c", "0", "%", "a", "e", "%", "2", "f">>
   , <<".", ".", "%", "2", "5", "2", "f">>
   , <<".", ".", "%", "2", "5", "2", "5", "2", "f">>
   , <<".", ".", "%", "2", "5", "2", "5", "2", "5", "2", "f">>
   , <<".", ".", "%", "2", "5", "2", "5", "2", "5", "2", "5", "2", "f">>
   , <<".", ".", "%", "2", "f", "%", "2", "5", "2", "f">>
   , <<".", ".", "%", "2", "5", "2", "f", "%", "2", "5", "2", "5", "2", "f">>
   , <<".", ".", "%", "2", "5", "2", "5", "2", "f", "%", "2", "5", "2", "5", "2", "5", "2", "f">>
   , <<".", ".", "%", "2", "5", "2", "5", "2", "5", "2", "f", "%", "2", "5", "2", "5", "2", "5", "2", "5", "2", "f">>
   , <<".", ".", "%", "2", "F", "%", "2", "5", "2", "f">>
   , <<".", ".", "%", "2", "5", "2", "F", "%", "2", "5", "2", "5", "2", "f">>
   , <<".", ".", "%", "2", "5", "2", "5", "2", "F", "%", "2", "5", "2", "5", "2", "5", "2", "f">>
   , <<".", ".", "%", "c", "0", "%", "a", "f", "%", "2", "5", "2", "f">>
   , <<".", ".", "%", "c", "0", "%", "a", "f", "%", "2", "5", "2", "5", "2", "f">>
   , <<".", ".", "%", "e", "0", "%", "8", "0", "%", "a", "f", "%", "2", "5", "2", "f">>
   , <<".", ".", "%", "e", "0", "%", "8", "0", "%", "a", "f", "%", "2", "5", "2", "5", "2", "f">>
   , <<".", ".", "%", "0", "0", "%", "2", "5", "2", "f">>
   , <<".", ".", "%", "2", "5", "0", "0", "%", "2", "5", "2", "f">>
   , <<".", ".", "%", "2", "5", "2", "5", "0", "0", "%", "2", "5", "2", "5", "2", "f">>
   , <<".", ".", "%", "0", "0", "%", "2", "5", "5", "c">>
   , <<".", ".", "%", "2", "5", "0", "0", "%", "2", "5", "5", "c">>
   , <<".", ".", "%", "2", "5", "2", "5", "0", "0", "%", "2", "5", "2", "5", "5", "c">>
   , <<".", ".", "%", "c", "0", "%", "8", "0", "%", "2", "5", "2", "f">>
   , <<".", ".", "%", "e", "0", "%", "8", "0", "%", "8", "0", "%", "2", "5", "2", "f">>
   , <<".", ".", "%", "f", "0", "%", "8", "0", "%", "8", "0", "%", "8", "0", "%", "2", "5", "2", "f">>
   , <<".", ".", "%", "u", "0", "0", "0", "0", "%", "2", "5", "2", "f">>
   , <<".", ".", "%", "0", "1", "%", "2", "5", "2", "f">>
   , <<".", ".", "%", "0", "2", "%", "2", "5", "2", "f">>
   , <<".", ".", "%", "0", "0", "%", "0", "0", "%", "2", "f">>
   , <<".", ".", "%", "2", "5", "0", "0", "%", "2", "5", "0", "0", "%", "2", "5", "2", "f">>
   , <<".", ".", "%", "0", "0", "%", "2", "5", "0", "0", "%", "2", "5", "2", "f">>
   , <<".", ".", "%", "0", "0", "%", "0", "1", "%", "0", "0", "%", "2", "f">>
   , <<".", ".", "%", "0", "0", "%", "2", "0", "%", "0", "0", "%", "2", "f">>
   , <<".", ".", "%", "2", "5", "0", "0", "%", "2", "0", "%", "2", "5", "0", "0", "%", "2", "5", "2", "f">>
   , <<".", ".", "%", "0", "0", "/", "%", "2", "e", "%", "2", "e", "/">>
   , <<".", ".", "%", "2", "5", "0", "0", "/", "%", "2", "5", "2", "e", "%", "2", "5", "2", "e", "/">>
   , <<".", ".", "%", "2", "5", "2", "5", "0", "0", "/", "%", "2", "5", "2", "5", "2", "e", "%", "2", "5", "2", "5", "2", "e", "/">>
   , <<".", "%", "0", "0", ".", "%", "2", "f", ".", "%", "0", "0", ".", "%", "2", "f">>
   , <<".", "%", "2", "5", "0", "0", ".", "%", "2", "5", "2", "f", ".", "%", "2", "5", "0", "0", ".", "%", "2", "5", "2", "f">>
   , <<".", ".", "%", "0", "0", ".", "p", "n", "g", "%", "2", "f">>
   , <<".", ".", "%", "0", "0", ".", "j", "p", "g", "%", "2", "5", "2", "f">>
   , <<".", ".", "%", "0", "0", ".", "p", "d", "f", "%", "2", "5", "2", "5", "2", "f">>
   , <<".", ".", "%", "2", "5", "0", "0", ".", "t", "x", "t", "%", "2", "5", "2", "f">>
   , <<".", ".", "%", "2", "5", "2", "5", "0", "0", ".", "l", "o", "g", "%", "2", "5", "2", "5", "2", "f">>
   , <<".", ".", "%", "c", "0", "%", "8", "0", ".", "b", "a", "c", "k", "u", "p", "%", "2", "5", "2", "f">>
   , <<".", ".", "%", "e", "0", "%", "8", "0", "%", "8", "0", ".", "t", "m", "p", "%", "2", "5", "2", "5", "2", "f">>
   , <<".", ".", "%", "2", "0", "%", "2", "5", "2", "f">>
   , <<".", ".", "%", "2", "5", "2", "0", "%", "2", "5", "2", "5", "2", "f">>
   , <<".", ".", "%", "2", "5", "2", "5", "2", "0", "%", "2", "5", "2", "5", "2", "5", "2", "f">>
   , <<".", ".", "%", "2", "5", "2", "e", "%", "2", "5", "2", "5", "2", "e", "%", "2", "5", "2", "5", "2", "5", "2", "f">>
   , <<".", ".", "%", "2", "5", "2", "5", "2", "5", "2", "e", "%", "2", "5", "2", "5", "2", "5", "2", "5", "2", "e", "%", "2", "5", "2", "5", "2", "5", "2", "5", "2", "f">>
   , <<".", ".", "%", "2", "5", "3", "f", "%", "2", "5", "2", "f">>
   , <<".", ".", "%", "2", "5", "2", "5", "3", "b", "%", "2", "5", "2", "5", "2", "f">>
   , <<".", ".", "%", "2", "5", "2", "5", "2", "3", "3", "%", "2", "5", "2", "5", "2", "5", "2", "f">>
  >>

NON_RECURSIVE_BYPASS_PATTERNS ==
  << <<".", ".", "%", "2", "5", "2", "f", ".", ".", "%", "2", "5", "2", "f", ".", ".", "%", "2", "5", "2", "f">>
   , <<".", ".", "%", "2", "5", "2", "5", "2", "f", ".", ".", "%", "2", "5", "2", "5", "2", "f", ".", ".", "%", "2", "5", "2", "5", "2", "f">>
   , <<".", ".", "%", "2", "5", "2", "f", ".", ".", "%", "2", "5", "2", "f">>
   , <<".", ".", ".", ".", "/", "/">>
   , <<".", ".", ".", ".", ".", "/", "/", "/">>
   , <<".", ".", ".", ".", ".", ".", "/", "/", "/", "/">>
   , <<".", ".", ".", ".", "\\", "\\">>
   , <<".", ".", ".", ".", ".", "\\", "\\", "\\">>
   , <<".", ".", ".", ".", ".", ".", "\\", "\\", "\\", "\\">>
   , <<".", ".", ".", ".", "/", "/", ".", ".", "\\", "\\">>
   , <<".", ".", "\\", "\\", ".", ".", "/", "/">>
   , <<".", ".", ".", ".", "%", "2", "f", "%", "2", "f">>
   , <<".", ".", ".", ".", "%", "5", "c", "%", "5", "c">>
   , <<".", ".", ".", ".", "%", "2", "5", "2", "f", "%", "2", "5", "2", "f">>
   , <<".", ".", ".", ".", "%", "2", "5", "2", "f", "%", "2", "5", "2", "f", "/">>
   , <<".", ".", ".", ".", "%", "2", "5", "5", "c", "%", "2", "5", "5", "c">>
   , <<".", ".", ".", ".", "%", "2", "5", "5", "c", "%", "2", "5", "5", "c", "\\">>
   , <<".", ".", ".", ".", "%", "2", "5", "2", "5", "2", "f", "%", "2", "5", "2", "5", "2", "f">>
   , <<".", ".", ".", ".", "%", "2", "5", "2", "5", "2", "f", "%", "2", "5", "2", "5", "2", "f", "/">>
   , <<".", ".", ".", ".", "%", "2", "5", "2", "5", "5", "c", "%", "2", "5", "2", "5", "5", "c">>
   , <<".", ".", ".", ".", "%", "2", "5", "2", "5", "5", "c", "%", "2", "5", "2", "5", "5", "c", "\\">>
   , <<".", ".", ".", ".", "%", "2", "5", "2", "5", "2", "5", "2", "f", "%", "2", "5", "2", "5", "2", "5", "2", "f">>
   , <<".", ".", ".", ".", "%", "2", "5", "2", "5", "2", "5", "2", "f", "%", "2", "5", "2", "5", "2", "5", "2", "f", "/">>
   , <<".", ".", ".", ".", "%", "2", "5", "2", "5", "2", "5", "5", "c", "%", "2", "5", "2", "5", "2", "5", "5", "c">>
   , <<".", ".", ".", ".", "%", "2", "5", "2", "5", "2", "5", "5", "c", "%", "2", "5", "2", "5", "2", "5", "5", "c", "\\">>
   , <<".", ".", ".", ".", "%", "2", "5", "2", "5", "2", "5", "2", "5", "2", "f", "%", "2", "5", "2", "5", "2", "5", "2", "5", "2", "f">>
   , <<".", ".", ".", ".", "%", "2", "5", "2", "5", "2", "5", "2", "5", "2", "f", "%", "2", "5", "2", "5", "2", "5", "2", "5", "2", "f", "/">>
   , <<".", ".", ".", ".", "%", "2", "5", "2", "5", "2", "5", "2", "5", "5", "c", "%", "2", "5", "2", "5", "2", "5", "2", "5", "5", "c">>
   , <<".", ".", ".", ".", "%", "2", "5", "2", "5", "2", "5", "2", "5", "5", "c", "%", "2", "5", "2", "5", "2", "5", "2", "5", "5", "c", "\\">>
   , <<".", ".", ".", ".", "%", "2", "f", "%", "2", "5", "2", "f">>
   , <<".", ".", ".", ".", "%", "2", "5", "2", "f", "%", "2", "5", "2", "5", "2", "f">>
   , <<".", ".", ".", ".", "%", "2", "5", "2", "5", "2", "f", "%", "2", "5", "2", "5", "2", "5", "2", "f">>
   , <<".", ".", ".", ".", "%", "5", "c", "%", "2", "5", "5", "c">>
   , <<".", ".", ".", ".", "%", "2", "5", "5", "c", "%", "2", "5", "2", "5", "5", "c">>
   , <<".", ".", ".", ".", "%", "c", "0", "%", "a", "f", "%", "c", "0", "%", "a", "f">>
   , <<".", ".", ".", ".", "%", "c", "0", "%", "5", "c", "%", "c", "0", "%", "5", "c">>
   , <<".", ".", ".", ".", "%", "e", "0", "%", "8", "0", "%", "a", "f", "%", "e", "0", "%", "8", "0", "%", "a", "f">>
   , <<".", ".", ".", ".", "%", "c", "0", "%", "a", "f", "%", "2", "5", "2", "f">>
   , <<".", ".", ".", ".", "%", "2", "5", "2", "f", "%", "c", "0", "%", "a", "f">>
   , <<".", ".", ".", ".", "%", "e", "0", "%", "8", "0", "%", "a", "f", "%", "2", "5", "2", "5", "2", "f">>
   , <<".", ".", ".", ".", "%", "2", "5", "2", "5", "2", "f", "%", "e", "0", "%", "8", "0", "%", "a", "f">>
   , <<".", ".", ".", ".", "%", "0", "0", "/", "/">>
   , <<".", ".", ".", ".", "%", "0", "0", "\\", "\\">>
   , <<".", ".", "%", "0", "0", ".", ".", "/", "/">>
   , <<".", ".", ".", ".", "%", "2", "5", "0", "0", "%", "2", "5", "2", "f", "%", "2", "5", "2", "f">>
   , <<".", ".", ".", ".", "%", "2", "5", "2", "5", "0", "0", "%", "2", "5", "2", "5", "2", "f", "%", "2", "5", "2", "5", "2", "f">>
   , <<".", ".", ".", ".", " ", "/", "/">>
   , <<".", ".", ".", ".", "/", " ", "/">>
   , <<".", ".", ".", ".", " ", "\\", "\\">>
   , <<".", ".", ".", ".", "%", "2", "0", "%", "2", "5", "2", "f", "%", "2", "5", "2", "f">>
   , <<".", ".", ".", ".", "%", "2", "5", "2", "0", "%", "2", "5", "2", "5", "2", "f", "%", "2", "5", "2", "5", "2", "f">>
   , <<".", ".", ".", ".", "?", "/">>
   , <<".", ".", ".", ".", "?", "?", "/", "/">>
   , <<".", ".", ".", ".", ";", "/", "/">>
   , <<".", ".", ".", ".", ";", ";", "\\", "\\">>
   , <<".", ".", ".", ".", "#", "/">>
   , <<".", ".", ".", ".", "#", "#", "/", "/">>
   , <<".", ".", ".", ".", "%", "2", "F", "%", "2", "F">>
   , <<".", ".", ".", ".", "%", "2", "5", "2", "F", "%", "2", "5", "2", "F">>
   , <<".", ".", ".", ".", "%", "2", "5", "2", "5", "2", "F", "%", "2", "5", "2", "5", "2", "F">>
   , <<".", ".", ".", ".", "%", "5", "C", "%", "5", "C">>
   , <<".", ".", ".", ".", "%", "2", "5", "5", "C", "%", "2", "5", "5", "C">>
   , <<".", ".", ".", ".", "%", "2", "5", "2", "5", "5", "C", "%", "2", "5", "2", "5", "5", "C">>
   , <<".", ".", "%", "2", "5", "2", "e", "%", "2", "5", "2", "e", "%", "2", "5", "2", "f", "%", "2", "5", "2", "f">>
   , <<".", ".", "%", "2", "5", "2", "5", "2", "e", "%", "2", "5", "2", "5", "2", "e", "%", "2", "5", "2", "5", "2", "f", "%", "2", "5", "2", "5", "2", "f">>
   , <<".", ".", "%", "2", "5", "2", "5", "2", "5", "2", "e", "%", "2", "5", "2", "5", "2", "5", "2", "e", "%", "2", "5", "2", "5", "2", "5", "2", "f", "%", "2", "5", "2", "5", "2", "5", "2", "f">>
   , <<".", ".", ".", ".", "%", "2", "5", "2", "f", "%", "2", "f", "%", "2", "5", "2", "f">>
   , <<".", ".", ".", ".", "%", "2", "5", "2", "5", "2", "f", "%", "2", "5", "2", "f", "%", "2", "5", "2", "5", "2", "f">>
   , <<".", ".", ".", ".", "%", "c", "0", "%", "a", "f", "%", "2", "5", "2", "f", "%", "c", "0", "%", "a", "f">>
   , <<".", ".", ".", ".", "%", "e", "0", "%", "8", "0", "%", "a", "f", "%", "2", "5", "2", "5", "2", "f", "%", "e", "0", "%", "8", "0", "%", "a", "f">>
  >>

\* core_bypass_patterns of _generate_nonrecursive_bypass_traversals
core_bypass_patterns ==
  << <<".", ".", ".", ".", "/", "/", ".", ".", ".", ".", "/", "/", ".", ".", ".", ".", "/">>
   , <<".", ".", ".", ".", "/", "/", ".", ".", ".", ".", "/", "/", ".", ".", ".", ".", "/", "/", ".", ".", ".", ".", ".", "/">>
   , <<".", ".", ".", ".", "/", "/", ".", ".", ".", ".", "/", "/", ".", ".", ".", ".", "/", "/", ".", ".", ".", ".", "/", "/", ".", ".", ".", ".", "/">>
   , <<".", ".", ".", ".", ".", "/", "/", "/", ".", ".", ".", ".", ".", "/", "/", "/", ".", ".", ".", ".", ".">>
   , <<".", ".", ".", ".", ".", "/", "/", "/", ".", ".", ".", ".", ".", "/", "/", "/", ".", ".", ".", ".", ".", "/", "/", "/", ".", ".", ".", ".", ".">>
   , <<".", ".", ".", ".", ".", ".", "/", "/", "/", "/", ".", ".", ".", ".", ".", ".", "/", "/", "/", "/", ".", ".", ".", ".", ".">>
   , <<".", ".", ".", ".", "/", "/", ".", ".", ".", ".", "%", "2", "f", "%", "2", "f", ".", ".", ".", ".", "/">>
   , <<".", ".", ".", ".", "%", "2", "f", "%", "2", "f", ".", ".", ".", ".", "/", "/", ".", ".", ".", ".", "/">>
   , <<".", ".", ".", ".", "%", "c", "0", "%", "a", "f", "%", "c", "0", "%", "a", "f", ".", ".", ".", ".", "/", "/", ".", ".", ".", ".", "/">>
   , <<".", ".", ".", ".", "/", "/", ".", ".", ".", ".", "%", "c", "0", "%", "a", "f", "%", "c", "0", "%", "a", "f", ".", ".", ".", ".", "/">>
   , <<".", ".", ".", ".", "\\", "\\", ".", ".", ".", ".", "\\", "\\", ".", ".", ".", ".">>
   , <<".", ".", ".", ".", "\\", "\\", ".", ".", ".", ".", "/", "/", ".", ".", ".", ".", "/">>
   , <<".", ".", ".", ".", "/", "/", ".", ".", ".", ".", "\\", "\\", ".", ".", ".", ".", "/">>
   , <<".", ".", ".", ".", "%", "0", "0", "/", "/", ".", ".", ".", ".", "%", "0", "0", "/", "/", ".", ".", ".", ".", "/">>
   , <<".", ".", "%", "0", "0", ".", ".", "/", "/", ".", ".", "%", "0", "0", ".", ".", "/", "/", ".", ".", "%", "0", "0", ".", ".">>
   , <<".", ".", ".", ".", "%", "0", "0", "/", "/", ".", ".", ".", ".", "/", "/", ".", ".", ".", ".", "/">>
   , <<".", ".", ".", ".", " ", "/", "/", ".", ".", ".", ".", " ", "/", "/", ".", ".", ".", " ", "/">>
   , <<".", ".", ".", ".", "/", " ", "/", ".", ".", ".", ".", "/", " ", "/", ".", ".", ".", ".", "/">>
   , <<".", ".", ".", ".", "%", "2", "5", "2", "f", "%", "2", "5", "2", "f", ".", ".", ".", ".", "%", "2", "5", "2", "f", "%", "2", "5", "2", "f", ".", ".", ".", ".", "/">>
   , <<".", ".", ".", ".", "%", "e", "0", "%", "8", "0", "%", "a", "f", "%", "e", "0", "%", "8", "0", "%", "a", "f", ".", ".", ".", ".", "/", "/", ".", ".", ".", ".", "/">>
   , <<".", ".", ".", ".", "%", "c", "1", "%", "9", "c", "%", "c", "1", "%", "9", "c", ".", ".", ".", ".", "/", "/", ".", ".", ".", ".", "/">>
   , <<".", ".", ".", ".", "?", "/", ".", ".", ".", ".", "?", "/", ".", ".", ".", ".", "/">>
   , <<".", ".", ".", ".", ";", ";", "/", "/", "/", "/", ".", ".", ".", ".", ";", ";", "/", "/", "/", "/", ".", ".", ".", ".", "/">>
   , <<".", ".", ".", ".", "/", "/", ".", ".", ".", ".", "%", "0", "0", "/", "/", ".", ".", ".", ".", "%", "2", "f", "%", "2", "f", ".", ".", ".", ".", "/">>
   , <<".", ".", ".", ".", "%", "c", "0", "%", "a", "f", "%", "c", "0", "%", "a", "f", ".", ".", ".", ".", "\\", "\\", ".", ".", ".", ".", "/", "/", ".", ".", ".", ".", "/">>
  >>

\* basic_patterns of _generate_simple_traversals
basic_patterns == << <<".", ".", "/">>, <<".", ".", "\\">>, <<".", "/">>, <<".", "\\">> >>

\* encoded_patterns of _generate_url_encoding_traversals
encoded_patterns ==
  << <<"%", "2", "e", "%", "2", "e", "%", "2", "f">>, <<"%", "2", "5", "2", "e", "%", "2", "5", "2", "e", "%", "2", "5", "2", "f">>, <<"%", "2", "5", "2", "5", "2", "e", "%", "2", "5", "2", "5", "2", "e", "%", "2", "5", "2", "5", "2", "f">>,
     <<"%", "2", "e", "%", "2", "e", "%", "5", "c">>, <<"%", "2", "5", "2", "e", "%", "2", "5", "2", "e", "%", "2", "5", "5", "c">> >>

\* the cap [:30] on NON_RECURSIVE_BYPASS_PATTERNS
NonRecCap == 30

\* _get_target_files with the early return missing: the EXTRA_FILES are
\* appended to the given file too
get_target_files_extra_with_given(os_type, specific_file, extra_files) ==
  (IF specific_file # <<>> THEN <<specific_file>>
   ELSE (CASE os_type = "windows" -> WINDOWS_FILES
           [] os_type = "unix" -> UNIX_FILES
           [] OTHER -> WINDOWS_FILES \o UNIX_FILES))
  \o (IF extra_files THEN EXTRA_FILES ELSE <<>>)

(***************************************************************************)
(* Target files                                                            *)
(***************************************************************************)
\* _get_target_files
get_target_files(os_type, specific_file, extra_files) ==
  IF specific_file # <<>> THEN <<specific_file>>
  ELSE (CASE os_type = "windows" -> WINDOWS_FILES
          [] os_type = "unix" -> UNIX_FILES
          [] OTHER -> WINDOWS_FILES \o UNIX_FILES)
       \o (IF extra_files THEN EXTRA_FILES ELSE <<>>)

\* _normalize_target_file: target_file.lstrip('/').lstrip('\\')
normalize_target_file(target_file) == LStrip(LStrip(target_file, "/"), "\\")

EncFwd == << <<"%", "2", "f">>, <<"%", "2", "5", "2", "f">>, <<"%", "2", "5", "2", "5", "2", "f">>, <<"%", "2", "5", "2", "5", "2", "5", "2", "f">>, <<"%", "2", "5", "2", "5", "2", "5", "2", "5", "2", "f">> >>

EncBack == << <<"%", "5", "c">>, <<"%", "2", "5", "5", "c">>, <<"%", "2", "5", "2", "5", "5", "c">>, <<"%", "2", "5", "2", "5", "2", "5", "5", "c">>, <<"%", "2", "5", "2", "5", "2", "5", "2", "5", "5", "c">> >>

\* _adapt_file_slashes; the literal "\\\\" of the source is two backslashes
adapt_file_slashes(target_file, traversal_pattern) ==
  LET pattern_lower == Lower(traversal_pattern)
  IN IF \E i \in 1..Len(EncFwd) : Contains(pattern_lower, EncFwd[i])
     THEN Replace(Replace(target_file, <<"/">>, <<"%", "2", "f">>), <<"\\", "\\">>, <<"%", "5", "c">>)
     ELSE IF \E i \in 1..Len(EncBack) : Contains(pattern_lower, EncBack[i])
     THEN Replace(Replace(target_file, <<"/">>, <<"%", "2", "f">>), <<"\\", "\\">>, <<"%", "5", "c">>)
     ELSE IF Contains(traversal_pattern, <<"\\", "\\">>)
     THEN Replace(target_file, <<"/">>, <<"\\", "\\">>)
     ELSE IF Contains(traversal_pattern, <<"/">>)
     THEN Replace(target_file, <<"\\", "\\">>, <<"/">>)
     ELSE target_file

(***************************************************************************)
(* A generated payload: s is the string the engine returns; fam, trav,     *)
(* file and tgt record the block that appended it, the traversal prefix,   *)
(* the target file it was built for and the target part as concatenated.   *)
(***************************************************************************)
Payload(fam, trav, file, tgt, tail) ==
  [s |-> trav \o tgt \o tail, fam |-> fam, trav |-> trav, file |-> file, tgt |-> tgt]

\* _generate_patterns
generate_patterns ==
  LET dots == Take(DOTS, NDots)
      slashes == Take(SLASHES, NSlashes)
  IN Flat([i \in 1..Len(dots) |-> [j \in 1..Len(slashes) |-> dots[i] \o slashes[j]]])

\* pattern * k for every pattern and every k in range(min_depth, max_depth + 1)
Repetitions(patterns, min_depth, max_depth) ==
  Flat([i \in 1..Len(patterns) |->
          [n \in 1..(max_depth - min_depth + 1) |-> Rep(patterns[i], min_depth + n - 1)]])

\* _generate_nonrecursive_bypass_traversals
generate_nonrecursive_bypass_traversals(max_depth) ==
  LET core == Take(core_bypass_patterns, NCore)
      depth_limited ==
        Flat([depth \in 1..Min(max_depth, 4) |->
                SelectSeq(core, LAMBDA pattern : depth <= 3 \/ Len(pattern) < 50)])
      bases == Take(Take(NON_RECURSIVE_BYPASS_PATTERNS, NNonRec), NonRecCap)
      three_level(b) == b \o b \o SubSeq(b, 3, Len(b))
      four_level(b) == b \o b \o b \o SubSeq(b, 3, Len(b))
      systematic ==
        Flat([i \in 1..Len(bases) |->
                (IF max_depth >= 3 THEN <<three_level(bases[i])>> ELSE <<>>)
                \o (IF max_depth >= 4 /\ Len(four_level(bases[i])) < 60
                    THEN <<four_level(bases[i])>> ELSE <<>>)])
  IN Dedup(SelectSeq(depth_limited \o systematic, LAMBDA t : t # <<>> /\ Len(t) > 5))

\* traversal + normalized target + extension, for every traversal and target
Combine(fam, traversals, target_files, extension) ==
  Flat([i \in 1..Len(traversals) |->
          [j \in 1..Len(target_files) |->
             Payload(fam, traversals[i], target_files[j],
                     normalize_target_file(target_files[j]), extension)]])

\* _generate_simple_traversals that repeats the patterns depth times only
generate_simple_traversals_one_depth(os_type, depth, specific_file, extra_files, extension, bisection_depth) ==
  LET max_depth == IF bisection_depth # 0 THEN bisection_depth ELSE depth
      min_depth == max_depth
  IN Combine("simple", Repetitions(basic_patterns, min_depth, max_depth),
             get_target_files(os_type, specific_file, extra_files), extension)

\* _generate_simple_traversals
generate_simple_traversals(os_type, depth, specific_file, extra_files, extension, bisection_depth) ==
  LET max_depth == IF bisection_depth # 0 THEN bisection_depth ELSE depth
      min_depth == IF bisection_depth # 0 THEN bisection_depth ELSE 1
  IN Combine("simple", Repetitions(basic_patterns, min_depth, max_depth),
             get_target_files(os_type, specific_file, extra_files), extension)

\* _generate_url_encoding_traversals
generate_url_encoding_traversals(os_type, depth, specific_file, extra_files, extension, bisection_depth) ==
  LET max_depth == IF bisection_depth # 0 THEN bisection_depth ELSE depth
      min_depth == IF bisection_depth # 0 THEN bisection_depth ELSE 1
  IN Combine("url_encoding", Repetitions(encoded_patterns, min_depth, max_depth),
             get_target_files(os_type, specific_file, extra_files), extension)

\* _generate_non_recursive_traversals
generate_non_recursive_traversals(os_type, depth, specific_file, extra_files, extension, bisection_depth) ==
  LET max_depth == IF bisection_depth # 0 THEN bisection_depth ELSE depth
  IN Combine("non_recursive", generate_nonrecursive_bypass_traversals(max_depth),
             get_target_files(os_type, specific_file, extra_files), extension)

\* the loop of _generate_all_methods over all_traversals and target_files:
\* the target as it is and, when it differs, with its slashes adapted
CombineAdapted(fam, traversals, target_files, extension) ==
  Flat(Flat([i \in 1..Len(traversals) |->
          [j \in 1..Len(target_files) |->
             LET adapted_file == adapt_file_slashes(target_files[j], traversals[i])
                 file_variants == IF adapted_file # target_files[j]
                                  THEN <<target_files[j], adapted_file>>
                                  ELSE <<target_files[j]>>
             IN [v \in 1..Len(file_variants) |->
                   Payload(fam, traversals[i], target_files[j],
                           normalize_target_file(file_variants[v]), extension)]]]))

\* s.upper()
UpperChar(c) ==
  CASE c = "a" -> "A" [] c = "b" -> "B" [] c = "c" -> "C" [] c = "d" -> "D"
    [] c = "e" -> "E" [] c = "f" -> "F" [] c = "g" -> "G" [] c = "h" -> "H"
    [] c = "i" -> "I" [] c = "j" -> "J" [] c = "k" -> "K" [] c = "l" -> "L"
    [] c = "m" -> "M" [] c = "n" -> "N" [] c = "o" -> "O" [] c = "p" -> "P"
    [] c = "q" -> "Q" [] c = "r" -> "R" [] c = "s" -> "S" [] c = "t" -> "T"
    [] c = "u" -> "U" [] c = "v" -> "V" [] c = "w" -> "W" [] c = "x" -> "X"
    [] c = "y" -> "Y" [] c = "z" -> "Z" [] OTHER -> c

Upper(s) == [i \in 1..Len(s) |-> UpperChar(s[i])]

\* s.split(c) for a single character c
RECURSIVE SplitFrom(_, _, _)
SplitFrom(s, c, cur) ==
  IF s = <<>> THEN <<cur>>
  ELSE IF s[1] = c THEN <<cur>> \o SplitFrom(Tail(s), c, <<>>)
       ELSE SplitFrom(Tail(s), c, Append(cur, s[1]))

Split(s, c) == SplitFrom(s, c, <<>>)

\* sep.join(parts)
RECURSIVE Join(_, _)
Join(parts, sep) ==
  IF parts = <<>> THEN <<>>
  ELSE IF Len(parts) = 1 THEN parts[1]
       ELSE parts[1] \o sep \o Join(Tail(parts), sep)

\* the payloads whose string is longer than minlen, the first of every string
DedupLonger(seq, minlen) ==
  LET long == SelectSeq(seq, LAMBDA p : Len(p.s) > minlen)
      first == SelectSeq([i \in 1..Len(long) |-> i],
                         LAMBDA i : \A j \in 1..(i - 1) : long[j].s # long[i].s)
  IN [n \in 1..Len(first) |-> long[first[n]]]

\* [extension] + [ext for ext in fake if ext != extension], the extension
\* given a leading dot when it has none
TestExtensions(extension, fake) ==
  IF extension # <<>>
  THEN LET ext == IF StartsWith(extension, <<".">>) THEN extension ELSE <<".">> \o extension
       IN <<ext>> \o SelectSeq(fake, LAMBDA x : x # ext)
  ELSE fake

(***************************************************************************)
(* Absolute target files and legitimate prefixes                           *)
(***************************************************************************)
UNIX_ABSOLUTE_FILES ==
  << <<"/", "e", "t", "c", "/", "p", "a", "s", "s", "w", "d">>
   , <<"/", "e", "t", "c", "/", "s", "h", "a", "d", "o", "w">>
   , <<"/", "e", "t", "c", "/", "h", "o", "s", "t", "s">>
   , <<"/", "e", "t", "c", "/", "h", "o", "s", "t", "n", "a", "m", "e">>
   , <<"/", "e", "t", "c", "/", "i", "s", "s", "u", "e">>
   , <<"/", "e", "t", "c", "/", "m", "o", "t", "d">>
   , <<"/", "e", "t", "c", "/", "g", "r", "o", "u", "p">>
   , <<"/", "e", "t", "c", "/", "f", "s", "t", "a", "b">>
   , <<"/", "e", "t", "c", "/", "c", "r", "o", "n", "t", "a", "b">>
   , <<"/", "p", "r", "o", "c", "/", "s", "e", "l", "f", "/", "e", "n", "v", "i", "r", "o", "n">>
   , <<"/", "p", "r", "o", "c", "/", "v", "e", "r", "s", "i", "o", "n">>
   , <<"/", "p", "r", "o", "c", "/", "c", "m", "d", "l", "i", "n", "e">>
   , <<"/", "p", "r", "o", "c", "/", "s", "e", "l", "f", "/", "s", "t", "a", "t">>
   , <<"/", "p", "r", "o", "c", "/", "s", "e", "l", "f", "/", "s", "t", "a", "t", "u", "s">>
   , <<"/", "v", "a", "r", "/", "l", "o", "g", "/", "a", "u", "t", "h", ".", "l", "o", "g">>
   , <<"/", "v", "a", "r", "/", "l", "o", "g", "/", "s", "y", "s", "l", "o", "g">>
   , <<"/", "v", "a", "r", "/", "l", "o", "g", "/", "m", "e", "s", "s", "a", "g", "e", "s">>
   , <<"/", "v", "a", "r", "/", "l", "o", "g", "/", "a", "p", "a", "c", "h", "e", "/", "a", "c", "c", "e", "s", "s", ".", "l", "o", "g">>
   , <<"/", "v", "a", "r", "/", "l", "o", "g", "/", "a", "p", "a", "c", "h", "e", "2", "/", "a", "c", "c", "e", "s", "s", ".", "l", "o", "g">>
   , <<"/", "v", "a", "r", "/", "l", "o", "g", "/", "a", "p", "a", "c", "h", "e", "/", "e", "r", "r", "o", "r", ".", "l", "o", "g">>
   , <<"/", "v", "a", "r", "/", "l", "o", "g", "/", "a", "p", "a", "c", "h", "e", "2", "/", "e", "r", "r", "o", "r", ".", "l", "o", "g">>
   , <<"/", "v", "a", "r", "/", "l", "o", "g", "/", "n", "g", "i", "n", "x", "/", "a", "c", "c", "e", "s", "s", ".", "l", "o", "g">>
   , <<"/", "v", "a", "r", "/", "l", "o", "g", "/", "n", "g", "i", "n", "x", "/", "e", "r", "r", "o", "r", ".", "l", "o", "g">>
   , <<"/", "v", "a", "r", "/", "w", "w", "w", "/", "h", "t", "m", "l", "/", "i", "n", "d", "e", "x", ".", "h", "t", "m", "l">>
   , <<"/", "v", "a", "r", "/", "w", "w", "w", "/", "i", "n", "d", "e", "x", ".", "h", "t", "m", "l">>
   , <<"/", "u", "s", "r", "/", "l", "o", "c", "a", "l", "/", "a", "p", "a", "c", "h", "e", "/", "c", "o", "n", "f", "/", "h", "t", "t", "p", "d", ".", "c", "o", "n", "f">>
   , <<"/", "u", "s", "r", "/", "l", "o", "c", "a", "l", "/", "a", "p", "a", "c", "h", "e", "2", "/", "c", "o", "n", "f", "/", "h", "t", "t", "p", "d", ".", "c", "o", "n", "f">>
   , <<"/", "e", "t", "c", "/", "a", "p", "a", "c", "h", "e", "2", "/", "a", "p", "a", "c", "h", "e", "2", ".", "c", "o", "n", "f">>
   , <<"/", "e", "t", "c", "/", "a", "p", "a", "c", "h", "e", "2", "/", "s", "i", "t", "e", "s", "-", "e", "n", "a", "b", "l", "e", "d", "/", "0", "0", "0", "-", "d", "e", "f", "a", "u", "l", "t">>
   , <<"/", "e", "t", "c", "/", "n", "g", "i", "n", "x", "/", "n", "g", "i", "n", "x", ".", "c", "o", "n", "f">>
   , <<"/", "e", "t", "c", "/", "n", "g", "i", "n", "x", "/", "s", "i", "t", "e", "s", "-", "e", "n", "a", "b", "l", "e", "d", "/", "d", "e", "f", "a", "u", "l", "t">>
   , <<"/", "h", "o", "m", "e", "/", "w", "w", "w", "-", "d", "a", "t", "a", "/", ".", "b", "a", "s", "h", "_", "h", "i", "s", "t", "o", "r", "y">>
   , <<"/", "r", "o", "o", "t", "/", ".", "b", "a", "s", "h", "_", "h", "i", "s", "t", "o", "r", "y">>
   , <<"/", "h", "o", "m", "e", "/", "[", "u", "s", "e", "r", "]", "/", ".", "b", "a", "s", "h", "_", "h", "i", "s", "t", "o", "r", "y">>
   , <<"/", "h", "o", "m", "e", "/", "[", "u", "s", "e", "r", "]", "/", ".", "s", "s", "h", "/", "i", "d", "_", "r", "s", "a">>
   , <<"/", "r", "o", "o", "t", "/", ".", "s", "s", "h", "/", "i", "d", "_", "r", "s", "a">>
  >>

WINDOWS_ABSOLUTE_FILES ==
  << <<"C", ":", "\\", "b", "o", "o", "t", ".", "i", "n", "i">>
   , <<"C", ":", "\\", "w", "i", "n", "d", "o", "w", "s", "\\", "w", "i", "n", ".", "i", "n", "i">>
   , <<"C", ":", "\\", "w", "i", "n", "d", "o", "w", "s", "\\", "s", "y", "s", "t", "e", "m", ".", "i", "n", "i">>
   , <<"C", ":", "\\", "w", "i", "n", "d", "o", "w", "s", "\\", "s", "y", "s", "t", "e", "m", "3", "2", "\\", "d", "r", "i", "v", "e", "r", "s", "\\", "e", "t", "c", "\\", "h", "o", "s", "t", "s">>
   , <<"C", ":", "\\", "w", "i", "n", "d", "o", "w", "s", "\\", "s", "y", "s", "t", "e", "m", "3", "2", "\\", "c", "o", "n", "f", "i", "g", "\\", "s", "a", "m">>
   , <<"C", ":", "\\", "w", "i", "n", "d", "o", "w", "s", "\\", "s", "y", "s", "t", "e", "m", "3", "2", "\\", "c", "o", "n", "f", "i", "g", "\\", "s", "y", "s", "t", "e", "m">>
   , <<"C", ":", "\\", "w", "i", "n", "d", "o", "w", "s", "\\", "s", "y", "s", "t", "e", "m", "3", "2", "\\", "c", "o", "n", "f", "i", "g", "\\", "s", "o", "f", "t", "w", "a", "r", "e">>
   , <<"C", ":", "\\", "w", "i", "n", "d", "o", "w", "s", "\\", "s", "y", "s", "t", "e", "m", "3", "2", "\\", "c", "o", "n", "f", "i", "g", "\\", "s", "e", "c", "u", "r", "i", "t", "y">>
   , <<"C", ":", "\\", "w", "i", "n", "d", "o", "w", "s", "\\", "r", "e", "p", "a", "i", "r", "\\", "s", "a", "m">>
   , <<"C", ":", "\\", "w", "i", "n", "d", "o", "w", "s", "\\", "r", "e", "p", "a", "i", "r", "\\", "s", "y", "s", "t", "e", "m">>
   , <<"C", ":", "\\", "w", "i", "n", "d", "o", "w", "s", "\\", "p", "h", "p", ".", "i", "n", "i">>
   , <<"C", ":", "\\", "p", "h", "p", "\\", "p", "h", "p", ".", "i", "n", "i">>
   , <<"C", ":", "\\", "p", "r", "o", "g", "r", "a", "m", " ", "f", "i", "l", "e", "s", "\\", "a", "p", "a", "c", "h", "e", " ", "g", "r", "o", "u", "p", "\\", "a", "p", "a", "c", "h", "e", "\\", "c", "o", "n", "f", "\\", "h", "t", "t", "p", "d", ".", "c", "o", "n", "f">>
   , <<"C", ":", "\\", "p", "r", "o", "g", "r", "a", "m", " ", "f", "i", "l", "e", "s", "\\", "a", "p", "a", "c", "h", "e", " ", "g", "r", "o", "u", "p", "\\", "a", "p", "a", "c", "h", "e", "2", "\\", "c", "o", "n", "f", "\\", "h", "t", "t", "p", "d", ".", "c", "o", "n", "f">>
   , <<"C", ":", "\\", "p", "r", "o", "g", "r", "a", "m", " ", "f", "i", "l", "e", "s", " ", "(", "x", "8", "6", ")", "\\", "a", "p", "a", "c", "h", "e", " ", "g", "r", "o", "u", "p", "\\", "a", "p", "a", "c", "h", "e", "\\", "c", "o", "n", "f", "\\", "h", "t", "t", "p", "d", ".", "c", "o", "n", "f">>
   , <<"C", ":", "\\", "a", "p", "a", "c", "h", "e", "\\", "c", "o", "n", "f", "\\", "h", "t", "t", "p", "d", ".", "c", "o", "n", "f">>
   , <<"C", ":", "\\", "i", "n", "e", "t", "p", "u", "b", "\\", "w", "w", "w", "r", "o", "o", "t", "\\", "i", "n", "d", "e", "x", ".", "h", "t", "m", "l">>
   , <<"C", ":", "\\", "i", "n", "e", "t", "p", "u", "b", "\\", "w", "w", "w", "r", "o", "o", "t", "\\", "w", "e", "b", ".", "c", "o", "n", "f", "i", "g">>
   , <<"C", ":", "\\", "w", "i", "n", "d", "o", "w", "s", "\\", "s", "y", "s", "t", "e", "m", "3", "2", "\\", "i", "n", "e", "t", "s", "r", "v", "\\", "c", "o", "n", "f", "i", "g", "\\", "a", "p", "p", "l", "i", "c", "a", "t", "i", "o", "n", "H", "o", "s", "t", ".", "c", "o", "n", "f", "i", "g">>
   , <<"C", ":", "\\", "w", "i", "n", "d", "o", "w", "s", "\\", "s", "y", "s", "t", "e", "m", "3", "2", "\\", "i", "n", "e", "t", "s", "r", "v", "\\", "c", "o", "n", "f", "i", "g", "\\", "a", "d", "m", "i", "n", "i", "s", "t", "r", "a", "t", "i", "o", "n", ".", "c", "o", "n", "f", "i", "g">>
   , <<"C", ":", "\\", "w", "i", "n", "d", "o", "w", "s", "\\", "m", "i", "c", "r", "o", "s", "o", "f", "t", ".", "n", "e", "t", "\\", "f", "r", "a", "m", "e", "w", "o", "r", "k", "\\", "v", "2", ".", "0", ".", "5", "0", "7", "2", "7", "\\", "c", "o", "n", "f", "i", "g", "\\", "w", "e", "b", ".", "c", "o", "n", "f", "i", "g">>
   , <<"C", ":", "\\", "w", "i", "n", "d", "o", "w", "s", "\\", "m", "i", "c", "r", "o", "s", "o", "f", "t", ".", "n", "e", "t", "\\", "f", "r", "a", "m", "e", "w", "o", "r", "k", "6", "4", "\\", "v", "2", ".", "0", ".", "5", "0", "7", "2", "7", "\\", "c", "o", "n", "f", "i", "g", "\\", "w", "e", "b", ".", "c", "o", "n", "f", "i", "g">>
   , <<"C", ":", "\\", "u", "s", "e", "r", "s", "\\", "a", "d", "m", "i", "n", "i", "s", "t", "r", "a", "t", "o", "r", "\\", "d", "e", "s", "k", "t", "o", "p", "\\", "d", "e", "s", "k", "t", "o", "p", ".", "i", "n", "i">>
   , <<"C", ":", "\\", "d", "o", "c", "u", "m", "e", "n", "t", "s", " ", "a", "n", "d", " ", "s", "e", "t", "t", "i", "n", "g", "s", "\\", "a", "d", "m", "i", "n", "i", "s", "t", "r", "a", "t", "o", "r", "\\", "d", "e", "s", "k", "t", "o", "p", "\\", "d", "e", "s", "k", "t", "o", "p", ".", "i", "n", "i">>
   , <<"C", ":", "\\", "w", "i", "n", "d", "o", "w", "s", "\\", "t", "e", "m", "p", "\\">>
   , <<"C", ":", "\\", "t", "e", "m", "p", "\\">>
   , <<"C", ":", "\\", "t", "m", "p", "\\">>
  >>

\* unix_prefixes of _get_legitimate_path_prefixes
unix_prefixes ==
  << <<"/", "v", "a", "r", "/", "w", "w", "w", "/", "h", "t", "m", "l", "/">>
   , <<"/", "v", "a", "r", "/", "w", "w", "w", "/">>
   , <<"/", "u", "s", "r", "/", "s", "h", "a", "r", "e", "/", "n", "g", "i", "n", "x", "/", "h", "t", "m", "l", "/">>
   , <<"/", "v", "a", "r", "/", "w", "w", "w", "/", "n", "g", "i", "n", "x", "-", "d", "e", "f", "a", "u", "l", "t", "/">>
   , <<"/", "o", "p", "t", "/", "l", "a", "m", "p", "p", "/", "h", "t", "d", "o", "c", "s", "/">>
   , <<"/", "s", "r", "v", "/", "w", "w", "w", "/">>
   , <<"/", "s", "r", "v", "/", "h", "t", "t", "p", "/">>
   , <<"/", "h", "o", "m", "e", "/", "u", "s", "e", "r", "/", "p", "u", "b", "l", "i", "c", "_", "h", "t", "m", "l", "/">>
   , <<"/", "v", "a", "r", "/", "w", "w", "w", "/", "i", "m", "a", "g", "e", "s", "/">>
   , <<"/", "v", "a", "r", "/", "w", "w", "w", "/", "u", "p", "l", "o", "a", "d", "s", "/">>
   , <<"/", "v", "a", "r", "/", "w", "w", "w", "/", "f", "i", "l", "e", "s", "/">>
   , <<"/", "v", "a", "r", "/", "w", "w", "w", "/", "d", "o", "c", "u", "m", "e", "n", "t", "s", "/">>
   , <<"/", "v", "a", "r", "/", "w", "w", "w", "/", "a", "s", "s", "e", "t", "s", "/">>
   , <<"/", "v", "a", "r", "/", "w", "w", "w", "/", "m", "e", "d", "i", "a", "/">>
   , <<"/", "v", "a", "r", "/", "w", "w", "w", "/", "s", "t", "a", "t", "i", "c", "/">>
   , <<"/", "v", "a", "r", "/", "w", "w", "w", "/", "c", "o", "n", "t", "e", "n", "t", "/">>
   , <<"/", "v", "a", "r", "/", "w", "w", "w", "/", "d", "a", "t", "a", "/">>
   , <<"/", "v", "a", "r", "/", "w", "w", "w", "/", "p", "u", "b", "l", "i", "c", "/">>
   , <<"/", "v", "a", "r", "/", "w", "w", "w", "/", "h", "t", "m", "l", "/", "i", "m", "a", "g", "e", "s", "/">>
   , <<"/", "v", "a", "r", "/", "w", "w", "w", "/", "h", "t", "m", "l", "/", "u", "p", "l", "o", "a", "d", "s", "/">>
   , <<"/", "v", "a", "r", "/", "w", "w", "w", "/", "h", "t", "m", "l", "/", "f", "i", "l", "e", "s", "/">>
   , <<"/", "v", "a", "r", "/", "w", "w", "w", "/", "h", "t", "m", "l", "/", "d", "o", "c", "u", "m", "e", "n", "t", "s", "/">>
   , <<"/", "v", "a", "r", "/", "w", "w", "w", "/", "h", "t", "m", "l", "/", "a", "s", "s", "e", "t", "s", "/">>
   , <<"/", "v", "a", "r", "/", "w", "w", "w", "/", "h", "t", "m", "l", "/", "m", "e", "d", "i", "a", "/">>
   , <<"/", "v", "a", "r", "/", "w", "w", "w", "/", "h", "t", "m", "l", "/", "s", "t", "a", "t", "i", "c", "/">>
   , <<"/", "v", "a", "r", "/", "w", "w", "w", "/", "h", "t", "m", "l", "/", "c", "o", "n", "t", "e", "n", "t", "/">>
   , <<"/", "v", "a", "r", "/", "w", "w", "w", "/", "h", "t", "m", "l", "/", "c", "s", "s", "/">>
   , <<"/", "v", "a", "r", "/", "w", "w", "w", "/", "h", "t", "m", "l", "/", "j", "s", "/">>
   , <<"/", "v", "a", "r", "/", "w", "w", "w", "/", "h", "t", "m", "l", "/", "a", "d", "m", "i", "n", "/">>
   , <<"/", "v", "a", "r", "/", "w", "w", "w", "/", "h", "t", "m", "l", "/", "u", "s", "e", "r", "/">>
   , <<"/", "v", "a", "r", "/", "w", "w", "w", "/", "h", "t", "m", "l", "/", "p", "u", "b", "l", "i", "c", "/">>
   , <<"/", "v", "a", "r", "/", "w", "w", "w", "/", "h", "t", "m", "l", "/", "s", "t", "o", "r", "a", "g", "e", "/">>
   , <<"/", "v", "a", "r", "/", "w", "w", "w", "/", "h", "t", "m", "l", "/", "w", "p", "-", "c", "o", "n", "t", "e", "n", "t", "/", "u", "p", "l", "o", "a", "d", "s", "/">>
   , <<"/", "v", "a", "r", "/", "w", "w", "w", "/", "h", "t", "m", "l", "/", "s", "i", "t", "e", "s", "/", "d", "e", "f", "a", "u", "l", "t", "/", "f", "i", "l", "e", "s", "/">>
   , <<"/", "u", "s", "r", "/", "s", "h", "a", "r", "e", "/", "n", "g", "i", "n", "x", "/", "h", "t", "m", "l", "/", "i", "m", "a", "g", "e", "s", "/">>
   , <<"/", "u", "s", "r", "/", "s", "h", "a", "r", "e", "/", "n", "g", "i", "n", "x", "/", "h", "t", "m", "l", "/", "u", "p", "l", "o", "a", "d", "s", "/">>
   , <<"/", "u", "s", "r", "/", "s", "h", "a", "r", "e", "/", "n", "g", "i", "n", "x", "/", "h", "t", "m", "l", "/", "f", "i", "l", "e", "s", "/">>
   , <<"/", "u", "s", "r", "/", "s", "h", "a", "r", "e", "/", "n", "g", "i", "n", "x", "/", "h", "t", "m", "l", "/", "a", "s", "s", "e", "t", "s", "/">>
   , <<"/", "u", "s", "r", "/", "s", "h", "a", "r", "e", "/", "n", "g", "i", "n", "x", "/", "h", "t", "m", "l", "/", "s", "t", "a", "t", "i", "c", "/">>
   , <<"/", "s", "r", "v", "/", "w", "w", "w", "/", "i", "m", "a", "g", "e", "s", "/">>
   , <<"/", "s", "r", "v", "/", "w", "w", "w", "/", "u", "p", "l", "o", "a", "d", "s", "/">>
   , <<"/", "s", "r", "v", "/", "w", "w", "w", "/", "f", "i", "l", "e", "s", "/">>
   , <<"/", "s", "r", "v", "/", "w", "w", "w", "/", "s", "t", "a", "t", "i", "c", "/">>
   , <<"/", "s", "r", "v", "/", "h", "t", "t", "p", "/", "i", "m", "a", "g", "e", "s", "/">>
   , <<"/", "s", "r", "v", "/", "h", "t", "t", "p", "/", "u", "p", "l", "o", "a", "d", "s", "/">>
   , <<"/", "s", "r", "v", "/", "h", "t", "t", "p", "/", "f", "i", "l", "e", "s", "/">>
   , <<"/", "s", "r", "v", "/", "h", "t", "t", "p", "/", "s", "t", "a", "t", "i", "c", "/">>
   , <<"/", "h", "o", "m", "e", "/", "u", "s", "e", "r", "/">>
   , <<"/", "h", "o", "m", "e", "/", "u", "s", "e", "r", "/", "d", "o", "c", "u", "m", "e", "n", "t", "s", "/">>
   , <<"/", "h", "o", "m", "e", "/", "u", "s", "e", "r", "/", "d", "o", "w", "n", "l", "o", "a", "d", "s", "/">>
   , <<"/", "h", "o", "m", "e", "/", "u", "s", "e", "r", "/", "p", "u", "b", "l", "i", "c", "/">>
   , <<"/", "h", "o", "m", "e", "/", "u", "s", "e", "r", "/", "D", "e", "s", "k", "t", "o", "p", "/">>
   , <<"/", "h", "o", "m", "e", "/", "u", "s", "e", "r", "/", "p", "i", "c", "t", "u", "r", "e", "s", "/">>
   , <<"/", "h", "o", "m", "e", "/", "u", "s", "e", "r", "/", "v", "i", "d", "e", "o", "s", "/">>
   , <<"/", "h", "o", "m", "e", "/", "u", "s", "e", "r", "/", "m", "u", "s", "i", "c", "/">>
   , <<"/", "h", "o", "m", "e", "/", "w", "w", "w", "-", "d", "a", "t", "a", "/">>
   , <<"/", "h", "o", "m", "e", "/", "w", "w", "w", "-", "d", "a", "t", "a", "/", "u", "p", "l", "o", "a", "d", "s", "/">>
   , <<"/", "h", "o", "m", "e", "/", "w", "w", "w", "-", "d", "a", "t", "a", "/", "f", "i", "l", "e", "s", "/">>
   , <<"/", "o", "p", "t", "/", "a", "p", "p", "/">>
   , <<"/", "o", "p", "t", "/", "a", "p", "p", "/", "f", "i", "l", "e", "s", "/">>
   , <<"/", "o", "p", "t", "/", "a", "p", "p", "/", "u", "p", "l", "o", "a", "d", "s", "/">>
   , <<"/", "o", "p", "t", "/", "a", "p", "p", "/", "i", "m", "a", "g", "e", "s", "/">>
   , <<"/", "o", "p", "t", "/", "a", "p", "p", "/", "d", "o", "c", "u", "m", "e", "n", "t", "s", "/">>
   , <<"/", "o", "p", "t", "/", "a", "p", "p", "/", "d", "a", "t", "a", "/">>
   , <<"/", "o", "p", "t", "/", "a", "p", "p", "/", "p", "u", "b", "l", "i", "c", "/">>
   , <<"/", "u", "s", "r", "/", "l", "o", "c", "a", "l", "/", "a", "p", "p", "/">>
   , <<"/", "u", "s", "r", "/", "l", "o", "c", "a", "l", "/", "a", "p", "p", "/", "f", "i", "l", "e", "s", "/">>
   , <<"/", "u", "s", "r", "/", "l", "o", "c", "a", "l", "/", "a", "p", "p", "/", "u", "p", "l", "o", "a", "d", "s", "/">>
   , <<"/", "u", "s", "r", "/", "l", "o", "c", "a", "l", "/", "a", "p", "p", "/", "p", "u", "b", "l", "i", "c", "/">>
   , <<"/", "u", "s", "r", "/", "s", "h", "a", "r", "e", "/", "a", "p", "p", "/">>
   , <<"/", "u", "s", "r", "/", "s", "h", "a", "r", "e", "/", "a", "p", "p", "/", "f", "i", "l", "e", "s", "/">>
   , <<"/", "u", "s", "r", "/", "s", "h", "a", "r", "e", "/", "a", "p", "p", "/", "p", "u", "b", "l", "i", "c", "/">>
   , <<"/", "t", "m", "p", "/">>
   , <<"/", "t", "m", "p", "/", "u", "p", "l", "o", "a", "d", "s", "/">>
   , <<"/", "t", "m", "p", "/", "f", "i", "l", "e", "s", "/">>
   , <<"/", "t", "m", "p", "/", "i", "m", "a", "g", "e", "s", "/">>
   , <<"/", "t", "m", "p", "/", "d", "o", "c", "u", "m", "e", "n", "t", "s", "/">>
   , <<"/", "v", "a", "r", "/", "t", "m", "p", "/">>
   , <<"/", "v", "a", "r", "/", "t", "m", "p", "/", "u", "p", "l", "o", "a", "d", "s", "/">>
   , <<"/", "v", "a", "r", "/", "t", "m", "p", "/", "f", "i", "l", "e", "s", "/">>
   , <<"/", "v", "a", "r", "/", "u", "p", "l", "o", "a", "d", "s", "/">>
   , <<"/", "v", "a", "r", "/", "u", "p", "l", "o", "a", "d", "s", "/", "f", "i", "l", "e", "s", "/">>
   , <<"/", "v", "a", "r", "/", "u", "p", "l", "o", "a", "d", "s", "/", "i", "m", "a", "g", "e", "s", "/">>
   , <<"/", "v", "a", "r", "/", "u", "p", "l", "o", "a", "d", "s", "/", "d", "o", "c", "u", "m", "e", "n", "t", "s", "/">>
   , <<"/", "v", "a", "r", "/", "f", "i", "l", "e", "s", "/">>
   , <<"/", "v", "a", "r", "/", "f", "i", "l", "e", "s", "/", "u", "p", "l", "o", "a", "d", "s", "/">>
   , <<"/", "v", "a", "r", "/", "f", "i", "l", "e", "s", "/", "d", "o", "c", "u", "m", "e", "n", "t", "s", "/">>
   , <<"/", "v", "a", "r", "/", "f", "t", "p", "/">>
   , <<"/", "v", "a", "r", "/", "f", "t", "p", "/", "p", "u", "b", "/">>
   , <<"/", "v", "a", "r", "/", "f", "t", "p", "/", "p", "u", "b", "/", "u", "p", "l", "o", "a", "d", "s", "/">>
   , <<"/", "v", "a", "r", "/", "f", "t", "p", "/", "p", "u", "b", "/", "f", "i", "l", "e", "s", "/">>
   , <<"/", "v", "a", "r", "/", "f", "t", "p", "/", "p", "u", "b", "/", "d", "o", "c", "u", "m", "e", "n", "t", "s", "/">>
   , <<"/", "h", "o", "m", "e", "/", "f", "t", "p", "/">>
   , <<"/", "h", "o", "m", "e", "/", "f", "t", "p", "/", "u", "p", "l", "o", "a", "d", "s", "/">>
   , <<"/", "h", "o", "m", "e", "/", "f", "t", "p", "/", "f", "i", "l", "e", "s", "/">>
   , <<"/", "h", "o", "m", "e", "/", "f", "t", "p", "/", "p", "u", "b", "l", "i", "c", "/">>
   , <<"/", "s", "r", "v", "/", "f", "t", "p", "/">>
   , <<"/", "s", "r", "v", "/", "f", "t", "p", "/", "u", "p", "l", "o", "a", "d", "s", "/">>
   , <<"/", "s", "r", "v", "/", "f", "t", "p", "/", "f", "i", "l", "e", "s", "/">>
   , <<"/", "s", "r", "v", "/", "f", "t", "p", "/", "p", "u", "b", "l", "i", "c", "/">>
   , <<"/", "v", "a", "r", "/", "l", "o", "g", "/", "a", "p", "p", "/">>
   , <<"/", "v", "a", "r", "/", "l", "o", "g", "/", "a", "p", "a", "c", "h", "e", "2", "/">>
   , <<"/", "v", "a", "r", "/", "l", "o", "g", "/", "n", "g", "i", "n", "x", "/">>
  >>

\* windows_prefixes of _get_legitimate_path_prefixes
windows_prefixes ==
  << <<"C", ":", "\\", "i", "n", "e", "t", "p", "u", "b", "\\", "w", "w", "w", "r", "o", "o", "t", "\\">>
   , <<"C", ":", "\\", "i", "n", "e", "t", "p", "u", "b", "\\", "f", "t", "p", "r", "o", "o", "t", "\\">>
   , <<"D", ":", "\\", "w", "w", "w", "\\">>
   , <<"E", ":", "\\", "w", "w", "w", "\\">>
   , <<"C", ":", "\\", "i", "n", "e", "t", "p", "u", "b", "\\", "w", "w", "w", "r", "o", "o", "t", "\\", "i", "m", "a", "g", "e", "s", "\\">>
   , <<"C", ":", "\\", "i", "n", "e", "t", "p", "u", "b", "\\", "w", "w", "w", "r", "o", "o", "t", "\\", "u", "p", "l", "o", "a", "d", "s", "\\">>
   , <<"C", ":", "\\", "i", "n", "e", "t", "p", "u", "b", "\\", "w", "w", "w", "r", "o", "o", "t", "\\", "f", "i", "l", "e", "s", "\\">>
   , <<"C", ":", "\\", "i", "n", "e", "t", "p", "u", "b", "\\", "w", "w", "w", "r", "o", "o", "t", "\\", "d", "o", "c", "u", "m", "e", "n", "t", "s", "\\">>
   , <<"C", ":", "\\", "i", "n", "e", "t", "p", "u", "b", "\\", "w", "w", "w", "r", "o", "o", "t", "\\", "a", "s", "s", "e", "t", "s", "\\">>
   , <<"C", ":", "\\", "i", "n", "e", "t", "p", "u", "b", "\\", "w", "w", "w", "r", "o", "o", "t", "\\", "m", "e", "d", "i", "a", "\\">>
   , <<"C", ":", "\\", "i", "n", "e", "t", "p", "u", "b", "\\", "w", "w", "w", "r", "o", "o", "t", "\\", "s", "t", "a", "t", "i", "c", "\\">>
   , <<"C", ":", "\\", "i", "n", "e", "t", "p", "u", "b", "\\", "w", "w", "w", "r", "o", "o", "t", "\\", "c", "o", "n", "t", "e", "n", "t", "\\">>
   , <<"C", ":", "\\", "i", "n", "e", "t", "p", "u", "b", "\\", "w", "w", "w", "r", "o", "o", "t", "\\", "d", "a", "t", "a", "\\">>
   , <<"C", ":", "\\", "i", "n", "e", "t", "p", "u", "b", "\\", "w", "w", "w", "r", "o", "o", "t", "\\", "p", "u", "b", "l", "i", "c", "\\">>
   , <<"C", ":", "\\", "i", "n", "e", "t", "p", "u", "b", "\\", "w", "w", "w", "r", "o", "o", "t", "\\", "c", "s", "s", "\\">>
   , <<"C", ":", "\\", "i", "n", "e", "t", "p", "u", "b", "\\", "w", "w", "w", "r", "o", "o", "t", "\\", "j", "s", "\\">>
   , <<"C", ":", "\\", "i", "n", "e", "t", "p", "u", "b", "\\", "w", "w", "w", "r", "o", "o", "t", "\\", "a", "d", "m", "i", "n", "\\">>
   , <<"C", ":", "\\", "i", "n", "e", "t", "p", "u", "b", "\\", "w", "w", "w", "r", "o", "o", "t", "\\", "u", "s", "e", "r", "\\">>
   , <<"C", ":", "\\", "i", "n", "e", "t", "p", "u", "b", "\\", "w", "w", "w", "r", "o", "o", "t", "\\", "s", "t", "o", "r", "a", "g", "e", "\\">>
   , <<"C", ":", "\\", "i", "n", "e", "t", "p", "u", "b", "\\", "w", "w", "w", "r", "o", "o", "t", "\\", "a", "d", "m", "i", "n", "\\", "u", "p", "l", "o", "a", "d", "s", "\\">>
   , <<"C", ":", "\\", "i", "n", "e", "t", "p", "u", "b", "\\", "w", "w", "w", "r", "o", "o", "t", "\\", "u", "s", "e", "r", "\\", "f", "i", "l", "e", "s", "\\">>
   , <<"C", ":", "\\", "i", "n", "e", "t", "p", "u", "b", "\\", "w", "w", "w", "r", "o", "o", "t", "\\", "p", "u", "b", "l", "i", "c", "\\", "i", "m", "a", "g", "e", "s", "\\">>
   , <<"C", ":", "\\", "i", "n", "e", "t", "p", "u", "b", "\\", "w", "w", "w", "r", "o", "o", "t", "\\", "s", "t", "o", "r", "a", "g", "e", "\\", "u", "p", "l", "o", "a", "d", "s", "\\">>
   , <<"C", ":", "\\", "i", "n", "e", "t", "p", "u", "b", "\\", "f", "t", "p", "r", "o", "o", "t", "\\", "u", "p", "l", "o", "a", "d", "s", "\\">>
   , <<"C", ":", "\\", "i", "n", "e", "t", "p", "u", "b", "\\", "f", "t", "p", "r", "o", "o", "t", "\\", "f", "i", "l", "e", "s", "\\">>
   , <<"C", ":", "\\", "i", "n", "e", "t", "p", "u", "b", "\\", "f", "t", "p", "r", "o", "o", "t", "\\", "d", "o", "c", "u", "m", "e", "n", "t", "s", "\\">>
   , <<"C", ":", "\\", "i", "n", "e", "t", "p", "u", "b", "\\", "f", "t", "p", "r", "o", "o", "t", "\\", "p", "u", "b", "l", "i", "c", "\\">>
   , <<"C", ":", "\\", "i", "n", "e", "t", "p", "u", "b", "\\", "f", "t", "p", "r", "o", "o", "t", "\\", "i", "m", "a", "g", "e", "s", "\\">>
   , <<"D", ":", "\\", "w", "w", "w", "\\", "i", "m", "a", "g", "e", "s", "\\">>
   , <<"D", ":", "\\", "w", "w", "w", "\\", "u", "p", "l", "o", "a", "d", "s", "\\">>
   , <<"D", ":", "\\", "w", "w", "w", "\\", "f", "i", "l", "e", "s", "\\">>
   , <<"D", ":", "\\", "w", "w", "w", "\\", "d", "o", "c", "u", "m", "e", "n", "t", "s", "\\">>
   , <<"D", ":", "\\", "w", "w", "w", "\\", "s", "t", "a", "t", "i", "c", "\\">>
   , <<"D", ":", "\\", "w", "w", "w", "\\", "a", "s", "s", "e", "t", "s", "\\">>
   , <<"D", ":", "\\", "w", "w", "w", "\\", "p", "u", "b", "l", "i", "c", "\\">>
   , <<"E", ":", "\\", "w", "w", "w", "\\", "i", "m", "a", "g", "e", "s", "\\">>
   , <<"E", ":", "\\", "w", "w", "w", "\\", "u", "p", "l", "o", "a", "d", "s", "\\">>
   , <<"E", ":", "\\", "w", "w", "w", "\\", "f", "i", "l", "e", "s", "\\">>
   , <<"E", ":", "\\", "w", "w", "w", "\\", "s", "t", "a", "t", "i", "c", "\\">>
   , <<"C", ":", "\\", "U", "s", "e", "r", "s", "\\", "P", "u", "b", "l", "i", "c", "\\">>
   , <<"C", ":", "\\", "U", "s", "e", "r", "s", "\\", "P", "u", "b", "l", "i", "c", "\\", "D", "o", "c", "u", "m", "e", "n", "t", "s", "\\">>
   , <<"C", ":", "\\", "U", "s", "e", "r", "s", "\\", "P", "u", "b", "l", "i", "c", "\\", "D", "o", "w", "n", "l", "o", "a", "d", "s", "\\">>
   , <<"C", ":", "\\", "U", "s", "e", "r", "s", "\\", "P", "u", "b", "l", "i", "c", "\\", "P", "i", "c", "t", "u", "r", "e", "s", "\\">>
   , <<"C", ":", "\\", "U", "s", "e", "r", "s", "\\", "P", "u", "b", "l", "i", "c", "\\", "V", "i", "d", "e", "o", "s", "\\">>
   , <<"C", ":", "\\", "U", "s", "e", "r", "s", "\\", "U", "s", "e", "r", "\\">>
   , <<"C", ":", "\\", "U", "s", "e", "r", "s", "\\", "U", "s", "e", "r", "\\", "D", "o", "c", "u", "m", "e", "n", "t", "s", "\\">>
   , <<"C", ":", "\\", "U", "s", "e", "r", "s", "\\", "U", "s", "e", "r", "\\", "D", "e", "s", "k", "t", "o", "p", "\\">>
   , <<"C", ":", "\\", "U", "s", "e", "r", "s", "\\", "U", "s", "e", "r", "\\", "D", "o", "w", "n", "l", "o", "a", "d", "s", "\\">>
   , <<"C", ":", "\\", "U", "s", "e", "r", "s", "\\", "U", "s", "e", "r", "\\", "P", "i", "c", "t", "u", "r", "e", "s", "\\">>
   , <<"C", ":", "\\", "U", "s", "e", "r", "s", "\\", "A", "d", "m", "i", "n", "i", "s", "t", "r", "a", "t", "o", "r", "\\", "D", "o", "c", "u", "m", "e", "n", "t", "s", "\\">>
   , <<"C", ":", "\\", "U", "s", "e", "r", "s", "\\", "G", "u", "e", "s", "t", "\\", "D", "o", "c", "u", "m", "e", "n", "t", "s", "\\">>
   , <<"C", ":", "\\", "P", "r", "o", "g", "r", "a", "m", " ", "F", "i", "l", "e", "s", "\\", "A", "p", "p", "\\">>
   , <<"C", ":", "\\", "P", "r", "o", "g", "r", "a", "m", " ", "F", "i", "l", "e", "s", "\\", "A", "p", "p", "\\", "f", "i", "l", "e", "s", "\\">>
   , <<"C", ":", "\\", "P", "r", "o", "g", "r", "a", "m", " ", "F", "i", "l", "e", "s", "\\", "A", "p", "p", "\\", "u", "p", "l", "o", "a", "d", "s", "\\">>
   , <<"C", ":", "\\", "P", "r", "o", "g", "r", "a", "m", " ", "F", "i", "l", "e", "s", "\\", "A", "p", "p", "\\", "d", "a", "t", "a", "\\">>
   , <<"C", ":", "\\", "P", "r", "o", "g", "r", "a", "m", " ", "F", "i", "l", "e", "s", "\\", "A", "p", "p", "\\", "p", "u", "b", "l", "i", "c", "\\">>
   , <<"C", ":", "\\", "P", "r", "o", "g", "r", "a", "m", " ", "F", "i", "l", "e", "s", " ", "(", "x", "8", "6", ")", "\\", "A", "p", "p", "\\">>
   , <<"C", ":", "\\", "P", "r", "o", "g", "r", "a", "m", " ", "F", "i", "l", "e", "s", " ", "(", "x", "8", "6", ")", "\\", "A", "p", "p", "\\", "f", "i", "l", "e", "s", "\\">>
   , <<"C", ":", "\\", "P", "r", "o", "g", "r", "a", "m", " ", "F", "i", "l", "e", "s", " ", "(", "x", "8", "6", ")", "\\", "A", "p", "p", "\\", "u", "p", "l", "o", "a", "d", "s", "\\">>
   , <<"C", ":", "\\", "A", "p", "p", "\\">>
   , <<"C", ":", "\\", "A", "p", "p", "\\", "f", "i", "l", "e", "s", "\\">>
   , <<"C", ":", "\\", "A", "p", "p", "\\", "u", "p", "l", "o", "a", "d", "s", "\\">>
   , <<"C", ":", "\\", "A", "p", "p", "\\", "d", "a", "t", "a", "\\">>
   , <<"C", ":", "\\", "A", "p", "p", "\\", "p", "u", "b", "l", "i", "c", "\\">>
   , <<"C", ":", "\\", "A", "p", "p", "\\", "d", "o", "c", "u", "m", "e", "n", "t", "s", "\\">>
   , <<"C", ":", "\\", "T", "e", "m", "p", "\\">>
   , <<"C", ":", "\\", "T", "e", "m", "p", "\\", "u", "p", "l", "o", "a", "d", "s", "\\">>
   , <<"C", ":", "\\", "T", "e", "m", "p", "\\", "f", "i", "l", "e", "s", "\\">>
   , <<"C", ":", "\\", "T", "e", "m", "p", "\\", "d", "o", "c", "u", "m", "e", "n", "t", "s", "\\">>
   , <<"C", ":", "\\", "W", "i", "n", "d", "o", "w", "s", "\\", "T", "e", "m", "p", "\\">>
   , <<"C", ":", "\\", "W", "i", "n", "d", "o", "w", "s", "\\", "T", "e", "m", "p", "\\", "u", "p", "l", "o", "a", "d", "s", "\\">>
   , <<"C", ":", "\\", "u", "p", "l", "o", "a", "d", "s", "\\">>
   , <<"C", ":", "\\", "u", "p", "l", "o", "a", "d", "s", "\\", "f", "i", "l", "e", "s", "\\">>
   , <<"C", ":", "\\", "u", "p", "l", "o", "a", "d", "s", "\\", "i", "m", "a", "g", "e", "s", "\\">>
   , <<"C", ":", "\\", "f", "i", "l", "e", "s", "\\">>
   , <<"C", ":", "\\", "f", "i", "l", "e", "s", "\\", "u", "p", "l", "o", "a", "d", "s", "\\">>
   , <<"C", ":", "\\", "f", "i", "l", "e", "s", "\\", "d", "o", "c", "u", "m", "e", "n", "t", "s", "\\">>
   , <<"C", ":", "\\", "F", "T", "P", "\\">>
   , <<"C", ":", "\\", "F", "T", "P", "\\", "u", "p", "l", "o", "a", "d", "s", "\\">>
   , <<"C", ":", "\\", "F", "T", "P", "\\", "f", "i", "l", "e", "s", "\\">>
   , <<"C", ":", "\\", "F", "T", "P", "\\", "p", "u", "b", "l", "i", "c", "\\">>
   , <<"C", ":", "\\", "F", "T", "P", "\\", "d", "o", "c", "u", "m", "e", "n", "t", "s", "\\">>
   , <<"D", ":", "\\", "u", "p", "l", "o", "a", "d", "s", "\\">>
   , <<"D", ":", "\\", "u", "p", "l", "o", "a", "d", "s", "\\", "f", "i", "l", "e", "s", "\\">>
   , <<"D", ":", "\\", "u", "p", "l", "o", "a", "d", "s", "\\", "i", "m", "a", "g", "e", "s", "\\">>
   , <<"D", ":", "\\", "f", "i", "l", "e", "s", "\\">>
   , <<"D", ":", "\\", "f", "i", "l", "e", "s", "\\", "u", "p", "l", "o", "a", "d", "s", "\\">>
   , <<"D", ":", "\\", "f", "i", "l", "e", "s", "\\", "d", "o", "c", "u", "m", "e", "n", "t", "s", "\\">>
   , <<"E", ":", "\\", "f", "i", "l", "e", "s", "\\">>
   , <<"E", ":", "\\", "f", "i", "l", "e", "s", "\\", "u", "p", "l", "o", "a", "d", "s", "\\">>
   , <<"E", ":", "\\", "f", "i", "l", "e", "s", "\\", "d", "o", "c", "u", "m", "e", "n", "t", "s", "\\">>
   , <<"E", ":", "\\", "u", "p", "l", "o", "a", "d", "s", "\\">>
   , <<"E", ":", "\\", "u", "p", "l", "o", "a", "d", "s", "\\", "f", "i", "l", "e", "s", "\\">>
  >>

\* target_files.append(f) unless f is in target_files already
AppendNew(target_files, f) ==
  IF \E i \in 1..Len(target_files) : target_files[i] = f THEN target_files
  ELSE Append(target_files, f)

RECURSIVE AppendAllNew(_, _)
AppendAllNew(target_files, fs) ==
  IF fs = <<>> THEN target_files
  ELSE AppendAllNew(AppendNew(target_files, Head(fs)), Tail(fs))

\* _get_absolute_target_files
get_absolute_target_files(os_type, specific_file, extra_files) ==
  LET win == Take(WINDOWS_ABSOLUTE_FILES, NAbsFiles)
      unix == Take(UNIX_ABSOLUTE_FILES, NAbsFiles)
      lists == CASE os_type = "windows" -> win
                 [] os_type = "unix" -> unix
                 [] OTHER -> win \o unix
      specific ==
        IF specific_file = <<>> THEN <<>>
        ELSE IF StartsWith(specific_file, <<"/">>) \/ StartsWith(specific_file, <<"C", ":">>)
                \/ StartsWith(specific_file, <<"\\">>)
             THEN <<specific_file>>
             ELSE CASE os_type = "windows" -> << <<"C", ":", "\\">> \o specific_file >>
                    [] os_type = "unix" -> << <<"/">> \o specific_file >>
                    [] OTHER -> << <<"C", ":", "\\">> \o specific_file, <<"/">> \o specific_file >>
      extras ==
        IF ~extra_files THEN <<>>
        ELSE Flat([i \in 1..Len(EXTRA_FILES) |->
               (IF os_type \in {"windows", "generic"}
                THEN << <<"C", ":", "\\">> \o EXTRA_FILES[i], <<"C", ":", "\\", "i", "n", "e", "t", "p", "u", "b", "\\", "w", "w", "w", "r", "o", "o", "t", "\\">> \o EXTRA_FILES[i] >>
                ELSE <<>>)
               \o (IF os_type \in {"unix", "generic"}
                   THEN << <<"/">> \o EXTRA_FILES[i], <<"/", "v", "a", "r", "/", "w", "w", "w", "/", "h", "t", "m", "l", "/">> \o EXTRA_FILES[i] >>
                   ELSE <<>>)])
  IN AppendAllNew(AppendAllNew(lists, specific), extras)

\* _get_legitimate_path_prefixes
get_legitimate_path_prefixes(os_type) ==
  (IF os_type \in {"unix", "generic"} THEN Take(unix_prefixes, NPrefix) ELSE <<>>)
  \o (IF os_type \in {"windows", "generic"} THEN Take(windows_prefixes, NPrefix) ELSE <<>>)

(***************************************************************************)
(* Null byte bypass patterns                                               *)
(***************************************************************************)
\* common_extensions of _generate_null_byte_bypass_patterns
common_extensions ==
  << <<".", "p", "n", "g">>
   , <<".", "j", "p", "g">>
   , <<".", "j", "p", "e", "g">>
   , <<".", "g", "i", "f">>
   , <<".", "b", "m", "p">>
   , <<".", "w", "e", "b", "p">>
   , <<".", "s", "v", "g">>
   , <<".", "p", "d", "f">>
   , <<".", "d", "o", "c">>
   , <<".", "d", "o", "c", "x">>
   , <<".", "t", "x", "t">>
   , <<".", "r", "t", "f">>
   , <<".", "o", "d", "t">>
   , <<".", "z", "i", "p">>
   , <<".", "r", "a", "r">>
   , <<".", "t", "a", "r">>
   , <<".", "g", "z">>
   , <<".", "7", "z">>
   , <<".", "m", "p", "3">>
   , <<".", "w", "a", "v">>
   , <<".", "m", "p", "4">>
   , <<".", "a", "v", "i">>
   , <<".", "m", "o", "v">>
   , <<".", "x", "m", "l">>
   , <<".", "j", "s", "o", "n">>
   , <<".", "c", "s", "v">>
   , <<".", "l", "o", "g">>
   , <<".", "p", "h", "p">>
   , <<".", "j", "s", "p">>
   , <<".", "a", "s", "p">>
   , <<".", "a", "s", "p", "x">>
   , <<".", "j", "s">>
   , <<".", "h", "t", "m", "l">>
  >>

\* null_byte_encodings of _generate_null_byte_bypass_patterns ("NUL" is the
\* character U+0000)
null_byte_encodings ==
  << <<"%", "0", "0">>
   , <<"%", "2", "5", "0", "0">>
   , <<"%", "2", "5", "2", "5", "0", "0">>
   , <<"%", "2", "5", "2", "5", "2", "5", "0", "0">>
   , <<"%", "2", "5", "2", "5", "2", "5", "2", "5", "0", "0">>
   , <<"NUL">>
   , <<"%", "u", "0", "0", "0", "0">>
   , <<"%", "c", "0", "%", "8", "0">>
   , <<"%", "e", "0", "%", "8", "0", "%", "8", "0">>
   , <<"%", "f", "0", "%", "8", "0", "%", "8", "0", "%", "8", "0">>
   , <<"NUL">>
   , <<"%", "0", "1">>
   , <<"%", "0", "2">>
   , <<"%", "0", "3">>
   , <<"%", "0", "a">>
   , <<"%", "0", "d">>
   , <<"%", "0", "9">>
   , <<"%", "2", "0", "%", "0", "0">>
   , <<"%", "0", "0", "%", "2", "0">>
  >>

\* long_fake_names of _generate_null_byte_bypass_patterns
long_fake_names ==
  << Rep(<<"A">>, 50) \o <<".", "p", "n", "g">>, Rep(<<"B">>, 100) \o <<".", "j", "p", "g">>, Rep(<<"C">>, 200) \o <<".", "p", "d", "f">>,
     Rep(<<"v", "e", "r", "y", "l", "o", "n", "g", "f", "i", "l", "e", "n", "a", "m", "e", "t", "h", "a", "t", "m", "i", "g", "h", "t", "b", "e", "t", "c", "a", "t", "e", "d">>, 3) \o <<".", "t", "x", "t">> >>

\* base_traversal_patterns of _generate_null_byte_bypass_patterns
base_traversal_patterns(max_depth) ==
  Flat([depth \in 1..max_depth |->
          << Rep(<<".", ".", "/">>, depth), Rep(<<".", ".", "\\">>, depth), Rep(<<"%", "2", "e", "%", "2", "e", "%", "2", "f">>, depth),
             Rep(<<"%", "2", "e", "%", "2", "e", "%", "5", "c">>, depth), Rep(<<"%", "2", "5", "2", "e", "%", "2", "5", "2", "e", "%", "2", "5", "2", "f">>, depth),
             Rep(<<"%", "2", "5", "2", "e", "%", "2", "5", "2", "e", "%", "2", "5", "5", "c">>, depth) >>])
  \o << <<".", ".", ".", ".", "/", "/", ".", ".", ".", ".", "/", "/", ".", ".", ".", ".", "/", "/">>, <<".", ".", ".", ".", "\\", "\\", ".", ".", ".", ".", "\\", "\\", ".", ".", ".", ".", "\\", "\\">>,
        <<".", ".", "%", "2", "5", "2", "f", ".", ".", "%", "2", "5", "2", "f", ".", ".", "%", "2", "5", "2", "f">>, <<".", ".", "%", "2", "5", "5", "c", ".", ".", "%", "2", "5", "5", "c", ".", ".", "%", "2", "5", "5", "c">> >>

\* a payload of one of the families built around a traversal and a target
Built(fam, trav, file, tgt, s) ==
  [s |-> s, fam |-> fam, trav |-> trav, file |-> file, tgt |-> tgt]

\* _generate_null_byte_bypass_patterns
generate_null_byte_bypass_patterns(os_type, specific_file, extra_files, extension, max_depth) ==
  LET target_files == get_target_files(os_type, specific_file, extra_files)
      test_extensions == TestExtensions(extension, Take(common_extensions, NExt))
      encodings == Take(null_byte_encodings, NNull)
      base == base_traversal_patterns(max_depth)
      N(trav, file, tgt, s) == Built("null_byte", trav, file, tgt, s)
      comprehensive ==
        Flat(Flat(Flat([t \in 1..Len(base) |-> [f \in 1..Len(target_files) |->
          LET normalized_target == normalize_target_file(target_files[f])
              encoded_target == Replace(Replace(normalized_target, <<"/">>, <<"%", "2", "f">>), <<"\\">>, <<"%", "5", "c">>)
          IN Flat([n \in 1..Len(encodings) |-> [x \in 1..Len(test_extensions) |->
               <<N(base[t], target_files[f], normalized_target,
                   base[t] \o normalized_target \o encodings[n] \o test_extensions[x])>>
               \o (IF Len(test_extensions) > 1
                   THEN <<N(base[t], target_files[f], normalized_target,
                            base[t] \o normalized_target \o encodings[n]
                            \o test_extensions[x] \o <<".", "b", "a", "c", "k", "u", "p">> \o test_extensions[x])>>
                   ELSE <<>>)
               \o (IF encoded_target # normalized_target
                   THEN <<N(base[t], target_files[f], encoded_target,
                            base[t] \o encoded_target \o encodings[n] \o test_extensions[x])>>
                   ELSE <<>>)]])]])))
      selected_prefixes == Take(get_legitimate_path_prefixes(os_type), 10)
      with_prefix ==
        Flat(Flat(Flat(Flat([p \in 1..Len(selected_prefixes) |->
          [d \in 1..(Min(max_depth + 1, 5) - 2) |->
            [f \in 1..Len(Take(target_files, 5)) |->
              [n \in 1..Len(Take(encodings, 8)) |->
                [x \in 1..Len(Take(test_extensions, 6)) |->
                  LET clean_target == LStrip(LStrip(target_files[f], "/"), "\\")
                      traversal_seq == Rep(<<".", ".", "/">>, d + 1)
                  IN N(selected_prefixes[p] \o traversal_seq, target_files[f], clean_target,
                       selected_prefixes[p] \o traversal_seq \o clean_target
                       \o encodings[n] \o test_extensions[x])]]]]]))))
      absolute_files == Take(get_absolute_target_files(os_type, specific_file, extra_files), 15)
      absolute ==
        Flat(Flat(Flat([a \in 1..Len(absolute_files) |->
          [n \in 1..Len(Take(encodings, 10)) |->
            [x \in 1..Len(Take(test_extensions, 8)) |->
              LET abs_file == absolute_files[a]
                  encoded_abs == Replace(Replace(Replace(abs_file, <<"/">>, <<"%", "2", "f">>), <<"\\">>, <<"%", "5", "c">>), <<":">>, <<"%", "3", "a">>)
              IN <<N(<<>>, abs_file, abs_file,
                     abs_file \o encodings[n] \o test_extensions[x])>>
                 \o (IF encoded_abs # abs_file
                     THEN <<N(<<>>, abs_file, encoded_abs,
                              encoded_abs \o encodings[n] \o test_extensions[x])>>
                     ELSE <<>>)]]])))
      special_null_patterns ==
        Flat(Flat(Flat([t \in 1..Len(Take(base, 10)) |->
          [f \in 1..Len(Take(target_files, 5)) |->
            [x \in 1..Len(Take(test_extensions, 5)) |->
              LET normalized_target == normalize_target_file(target_files[f])
                  pre == base[t] \o normalized_target
                  fake_extension == test_extensions[x]
                  M(tail) == N(base[t], target_files[f], normalized_target, pre \o tail)
              IN << M(<<"%", "0", "0", "%", "0", "0">> \o fake_extension), M(<<"%", "0", "0", "%", "0", "1", "%", "0", "0">> \o fake_extension),
                    M(<<"%", "0", "0", ".">> \o fake_extension), M(<<".", "%", "0", "0">> \o fake_extension),
                    M(<<"%", "0", "0", "/">> \o fake_extension), M(<<"%", "0", "0", "\\">> \o fake_extension),
                    M(<<"%", "2", "5", "0", "0">> \o fake_extension), M(<<"%", "2", "5", "2", "5", "0", "0">> \o fake_extension) >>]]])))
      main_encodings == << <<"%", "0", "0">>, <<"%", "2", "5", "0", "0">> >>
      truncation ==
        Flat(Flat(Flat([t \in 1..Len(Take(base, 5)) |->
          [f \in 1..Len(Take(target_files, 3)) |->
            [n \in 1..Len(main_encodings) |->
              [l \in 1..Len(long_fake_names) |->
                LET normalized_target == normalize_target_file(target_files[f])
                IN N(base[t], target_files[f], normalized_target,
                     base[t] \o normalized_target \o main_encodings[n] \o long_fake_names[l])]]]])))
  IN DedupLonger(comprehensive \o with_prefix \o absolute \o special_null_patterns \o truncation, 10)

(***************************************************************************)
(* Absolute path patterns                                                  *)
(***************************************************************************)
\* null_encodings of _generate_null_byte_variations_for_absolute_paths
abs_null_encodings ==
  << <<"%", "0", "0">>
   , <<"%", "2", "5", "0", "0">>
   , <<"%", "2", "5", "2", "5", "0", "0">>
   , <<"%", "2", "5", "2", "5", "2", "5", "0", "0">>
   , <<"%", "c", "0", "%", "8", "0">>
   , <<"%", "e", "0", "%", "8", "0", "%", "8", "0">>
   , <<"%", "f", "0", "%", "8", "0", "%", "8", "0", "%", "8", "0">>
   , <<"%", "u", "0", "0", "0", "0">>
   , <<"%", "0", "1">>
   , <<"%", "0", "2">>
   , <<"%", "0", "a">>
   , <<"%", "0", "d">>
  >>

\* fake_extensions of _generate_null_byte_variations_for_absolute_paths
abs_fake_extensions ==
  << <<".", "p", "n", "g">>
   , <<".", "j", "p", "g">>
   , <<".", "j", "p", "e", "g">>
   , <<".", "g", "i", "f">>
   , <<".", "p", "d", "f">>
   , <<".", "t", "x", "t">>
   , <<".", "l", "o", "g">>
   , <<".", "x", "m", "l">>
   , <<".", "j", "s", "o", "n">>
   , <<".", "c", "s", "v">>
   , <<".", "d", "o", "c">>
   , <<".", "d", "o", "c", "x">>
   , <<".", "z", "i", "p">>
  >>

\* long_fake_extensions of _generate_null_byte_variations_for_absolute_paths
long_fake_extensions ==
  << <<".", "v", "e", "r", "y", "l", "o", "n", "g", "e", "x", "t", "e", "n", "s", "i", "o", "n", "n", "a", "m", "e", "t", "h", "a", "t", "m", "i", "g", "h", "t", "b", "e", "t", "c", "a", "t", "e", "d">>, <<".", "p", "n", "g">> \o Rep(<<"A">>, 50),
     <<".", "t", "x", "t">> \o Rep(<<"B">>, 100) >>

\* _generate_null_byte_variations_for_absolute_paths
generate_null_byte_variations_for_absolute_paths(absolute_file, extension) ==
  LET null_encodings == Take(abs_null_encodings, NNull)
      test_extensions == TestExtensions(extension, Take(abs_fake_extensions, NExt))
      A(tgt, s) == Built("absolute_path", <<>>, absolute_file, tgt, s)
      basic ==
        Flat(Flat([n \in 1..Len(null_encodings) |-> [x \in 1..Len(Take(test_extensions, 6)) |->
          << A(absolute_file, absolute_file \o null_encodings[n] \o test_extensions[x]),
             A(absolute_file, absolute_file \o null_encodings[n] \o test_extensions[x] \o <<".", "b", "a", "c", "k", "u", "p">>),
             A(absolute_file, absolute_file \o <<" ">> \o null_encodings[n] \o test_extensions[x]),
             A(absolute_file, absolute_file \o null_encodings[n] \o <<"%", "0", "0">> \o test_extensions[x]) >>]]))
      encoded_absolute_variations ==
        << Replace(Replace(Replace(absolute_file, <<"/">>, <<"%", "2", "f">>), <<"\\">>, <<"%", "5", "c">>), <<":">>, <<"%", "3", "a">>),
           Replace(Replace(Replace(absolute_file, <<"/">>, <<"%", "2", "5", "2", "f">>), <<"\\">>, <<"%", "2", "5", "5", "c">>), <<":">>, <<"%", "2", "5", "3", "a">>),
           Lower(Replace(absolute_file, <<"C", ":">>, <<"c", ":">>)),
           Upper(absolute_file) >>
      encoded ==
        Flat(Flat(Flat([v \in 1..Len(encoded_absolute_variations) |->
          IF encoded_absolute_variations[v] # absolute_file
          THEN [n \in 1..Len(Take(null_encodings, 4)) |-> [x \in 1..Len(Take(test_extensions, 4)) |->
                 <<A(encoded_absolute_variations[v],
                     encoded_absolute_variations[v] \o null_encodings[n] \o test_extensions[x])>>]]
          ELSE <<>>])))
      path_parts == Split(Replace(absolute_file, <<"\\">>, <<"/">>), "/")
      main_encodings == << <<"%", "0", "0">>, <<"%", "2", "5", "0", "0">> >>
      component ==
        IF Len(path_parts) > 2
        THEN Flat(Flat([i \in 1..(Len(path_parts) - 1) |-> [n \in 1..Len(main_encodings) |->
               [x \in 1..Len(Take(test_extensions, 3)) |->
                 LET modified_parts == [path_parts EXCEPT ![i + 1] = @ \o main_encodings[n]]
                     joined == Join(modified_parts, <<"/">>)
                     modified_path == IF Contains(absolute_file, <<"\\">>)
                                      THEN Replace(joined, <<"/">>, <<"\\">>) ELSE joined
                 IN A(modified_path, modified_path \o test_extensions[x])]]]))
        ELSE <<>>
      truncation ==
        Flat([n \in 1..Len(main_encodings) |-> [l \in 1..Len(long_fake_extensions) |->
          A(absolute_file, absolute_file \o main_encodings[n] \o long_fake_extensions[l])]])
      windows ==
        IF StartsWith(absolute_file, <<"C", ":">>) \/ Contains(absolute_file, <<"\\">>)
        THEN Flat(Flat([n \in 1..Len(main_encodings) |-> [x \in 1..Len(Take(test_extensions, 3)) |->
               << A(absolute_file, absolute_file \o <<":">> \o main_encodings[n] \o <<":", "$", "D", "A", "T", "A">> \o test_extensions[x]),
                  A(absolute_file, absolute_file \o <<":", "s", "t", "r", "e", "a", "m">> \o main_encodings[n] \o test_extensions[x]) >>]]))
        ELSE <<>>
      unix ==
        IF StartsWith(absolute_file, <<"/">>)
        THEN Flat(Flat([n \in 1..Len(main_encodings) |-> [x \in 1..Len(Take(test_extensions, 3)) |->
               << A(absolute_file, <<"/", "p", "r", "o", "c", "/", "s", "e", "l", "f", "/", "r", "o", "o", "t">> \o absolute_file \o main_encodings[n] \o test_extensions[x]),
                  A(absolute_file, <<"/", "p", "r", "o", "c", "/", "s", "e", "l", "f", "/", "c", "w", "d">> \o absolute_file \o main_encodings[n] \o test_extensions[x]) >>]]))
        ELSE <<>>
  IN DedupLonger(basic \o encoded \o component \o truncation \o windows \o unix, 10)

\* _generate_absolute_patterns
generate_absolute_patterns(os_type, specific_file, extra_files, extension) ==
  LET absolute_files == get_absolute_target_files(os_type, specific_file, extra_files)
  IN Flat([a \in 1..Len(absolute_files) |->
       LET abs_file == absolute_files[a]
           encoded_variations ==
             << Replace(Replace(abs_file, <<"/">>, <<"%", "2", "f">>), <<"\\">>, <<"%", "5", "c">>),
                Replace(Replace(abs_file, <<"/">>, <<"%", "2", "F">>), <<"\\">>, <<"%", "5", "C">>),
                Replace(abs_file, <<"/">>, <<"\\">>),
                Replace(abs_file, <<"\\">>, <<"/">>) >>
           kept == SelectSeq(encoded_variations, LAMBDA v : v # abs_file)
       IN <<Built("absolute_path", <<>>, abs_file, abs_file, abs_file \o extension)>>
          \o [v \in 1..Len(kept) |->
                Built("absolute_path", <<>>, abs_file, kept[v], kept[v] \o extension)]
          \o generate_null_byte_variations_for_absolute_paths(abs_file, extension)])

(***************************************************************************)
(* Path validation bypass patterns                                         *)
(***************************************************************************)
\* _generate_traversal_sequences_for_validation_bypass; the test "if
\* mixed_sequence not in sequences" only drops a string the final
\* de-duplication would drop
generate_traversal_sequences_for_validation_bypass(max_depth) ==
  LET standard ==
        Flat([depth \in 1..max_depth |->
          << Rep(<<".", ".", "/">>, depth), Rep(<<".", ".", "\\">>, depth),
             Rep(<<".", ".", "/">>, depth \div 2) \o Rep(<<".", ".", "\\">>, depth - depth \div 2) >>])
      encoded ==
        Flat([depth \in 1..(Min(max_depth + 1, 6) - 1) |->
          << Rep(<<"%", "2", "e", "%", "2", "e", "%", "2", "f">>, depth), Rep(<<"%", "2", "e", "%", "2", "e", "%", "5", "c">>, depth),
             Rep(<<"%", "2", "E", "%", "2", "E", "%", "2", "F">>, depth), Rep(<<"%", "2", "E", "%", "2", "E", "%", "5", "C">>, depth),
             Rep(<<"%", "2", "5", "2", "e", "%", "2", "5", "2", "e", "%", "2", "5", "2", "f">>, depth), Rep(<<"%", "2", "5", "2", "e", "%", "2", "5", "2", "e", "%", "2", "5", "5", "c">>, depth),
             Rep(<<".", ".", "/">>, depth \div 2) \o Rep(<<"%", "2", "e", "%", "2", "e", "%", "2", "f">>, depth - depth \div 2),
             Rep(<<".", ".", "\\">>, depth \div 2) \o Rep(<<"%", "2", "e", "%", "2", "e", "%", "5", "c">>, depth - depth \div 2) >>])
      nonrecursive ==
        Flat([depth \in 1..(Min(max_depth + 1, 4) - 1) |->
          << <<".", ".", ".", ".", "/", "/", ".", ".", ".", ".", "/", "/", ".", ".", ".", ".", "/">>, <<".", ".", ".", ".", "\\", "\\", ".", ".", ".", ".", "\\", "\\", ".", ".", ".", ".", "\\">>, <<".", ".", "\\", "/", ".", ".", "\\", "/", ".", ".", "\\", "/">>, <<".", ".", "/", "\\", ".", ".", "/", "\\", ".", ".", "\\">>,
             <<".", ".", "%", "2", "5", "2", "f", ".", ".", "%", "2", "5", "2", "f", ".", ".", "%", "2", "5", "2", "f">>, <<".", ".", "%", "2", "5", "5", "c", ".", ".", "%", "2", "5", "5", "c", ".", ".", "%", "2", "5", "5", "c">> >>])
  IN Dedup(standard \o encoded \o nonrecursive)

\* subdirs of _generate_encoded_variations_for_path_validation
encoded_subdirs ==
  << <<"i", "m", "a", "g", "e", "s", "/">>, <<"u", "p", "l", "o", "a", "d", "s", "/">>, <<"f", "i", "l", "e", "s", "/">>, <<"d", "o", "c", "u", "m", "e", "n", "t", "s", "/">>, <<"a", "s", "s", "e", "t", "s", "/">>, <<"m", "e", "d", "i", "a", "/">>,
     <<"s", "t", "a", "t", "i", "c", "/">>, <<"p", "u", "b", "l", "i", "c", "/">>, <<"d", "a", "t", "a", "/">>, <<"c", "o", "n", "t", "e", "n", "t", "/">> >>

\* _generate_encoded_variations_for_path_validation
generate_encoded_variations_for_path_validation(pattern) ==
  LET R(old, new) == Replace(pattern, old, new)
      basic ==
        << Replace(R(<<"/">>, <<"%", "2", "f">>), <<"\\">>, <<"%", "5", "c">>), Replace(R(<<"/">>, <<"%", "2", "F">>), <<"\\">>, <<"%", "5", "C">>),
           R(<<".", ".", "/">>, <<"%", "2", "e", "%", "2", "e", "%", "2", "f">>), R(<<".", ".", "\\">>, <<"%", "2", "e", "%", "2", "e", "%", "5", "c">>),
           R(<<".", ".", "/">>, <<"%", "2", "E", "%", "2", "E", "%", "2", "F">>), R(<<".", ".", "\\">>, <<"%", "2", "E", "%", "2", "E", "%", "5", "C">>) >>
      double ==
        << R(<<".", ".", "/">>, <<"%", "2", "5", "2", "e", "%", "2", "5", "2", "e", "%", "2", "5", "2", "f">>), R(<<".", ".", "\\">>, <<"%", "2", "5", "2", "e", "%", "2", "5", "2", "e", "%", "2", "5", "5", "c">>),
           R(<<".", ".", "/">>, <<"%", "2", "5", "2", "E", "%", "2", "5", "2", "E", "%", "2", "5", "2", "F">>), R(<<".", ".", "\\">>, <<"%", "2", "5", "2", "E", "%", "2", "5", "2", "E", "%", "2", "5", "5", "C">>) >>
      triple ==
        << R(<<".", ".", "/">>, <<"%", "2", "5", "2", "5", "2", "e", "%", "2", "5", "2", "5", "2", "e", "%", "2", "5", "2", "5", "2", "f">>), R(<<".", ".", "\\">>, <<"%", "2", "5", "2", "5", "2", "e", "%", "2", "5", "2", "5", "2", "e", "%", "2", "5", "2", "5", "5", "c">>) >>
      mixed ==
        << R(<<".", ".", "/">>, <<"%", "2", "e", "%", "2", "e", "%", "2", "5", "2", "f">>), R(<<".", ".", "/">>, <<"%", "2", "5", "2", "e", "%", "2", "e", "%", "2", "f">>),
           R(<<".", ".", "\\">>, <<"%", "2", "e", "%", "2", "e", "%", "2", "5", "5", "c">>), R(<<".", ".", "\\">>, <<"%", "2", "5", "2", "e", "%", "2", "e", "%", "5", "c">>) >>
      separators ==
        << R(<<"/">>, <<"%", "2", "f">>), R(<<"\\">>, <<"%", "5", "c">>), R(<<"/">>, <<"%", "2", "5", "2", "f">>), R(<<"\\">>, <<"%", "2", "5", "5", "c">>),
           R(<<"/">>, <<"\\">>), R(<<"\\">>, <<"/">>), R(<<"/">>, <<"\\", "/">>), R(<<"\\">>, <<"\\", "\\">>) >>
      unicode ==
        << R(<<".", ".", "/">>, <<"%", "c", "0", "%", "a", "e", "%", "c", "0", "%", "a", "e", "%", "2", "f">>), R(<<".", ".", "/">>, <<"%", "e", "0", "%", "8", "0", "%", "a", "e", "%", "e", "0", "%", "8", "0", "%", "a", "e", "%", "2", "f">>),
           R(<<".", ".", "/">>, <<"%", "%", "3", "2", "%", "%", "6", "5", "%", "%", "3", "2", "%", "%", "6", "5", "%", "%", "3", "2", "%", "%", "6", "6">>), R(<<".", ".", "/">>, <<"%", "u", "f", "f", "0", "e", "%", "u", "f", "f", "0", "e", "%", "2", "f">>) >>
      subdirs ==
        Flat([i \in 1..Len(encoded_subdirs) |->
          LET subdir == encoded_subdirs[i]
          IN IF Contains(pattern, subdir)
             THEN << R(subdir, Replace(subdir, <<"/">>, <<"%", "2", "f">>)),
                     R(subdir, Replace(subdir, <<"/">>, <<"%", "2", "5", "2", "f">>)),
                     R(subdir, Upper(subdir)), R(subdir, Lower(subdir)) >>
             ELSE <<>>])
      windows ==
        IF Contains(pattern, <<"C", ":">>) \/ Contains(pattern, <<"\\", "w", "i", "n", "d", "o", "w", "s", "\\">>)
           \/ Contains(pattern, <<"\\", "p", "r", "o", "g", "r", "a", "m", " ", "f", "i", "l", "e", "s", "\\">>) \/ Contains(pattern, <<"\\", "i", "n", "e", "t", "p", "u", "b", "\\">>)
        THEN << Lower(pattern), Upper(pattern),
                Replace(R(<<"C", ":">>, <<"c", ":">>), <<"\\", "W", "i", "n", "d", "o", "w", "s", "\\">>, <<"\\", "W", "I", "N", "D", "O", "W", "S", "\\">>),
                R(<<"C", ":", "\\">>, <<"C", "%", "3", "A", "%", "5", "C">>), R(<<"C", ":", "\\">>, <<"C", "%", "2", "5", "3", "A", "%", "2", "5", "5", "C">>),
                R(<<"\\", "W", "i", "n", "d", "o", "w", "s", "\\">>, <<"%", "5", "C", "W", "i", "n", "d", "o", "w", "s", "%", "5", "C">>), R(<<"\\", "W", "i", "n", "d", "o", "w", "s", "\\">>, <<"%", "2", "5", "5", "C", "W", "i", "n", "d", "o", "w", "s", "%", "2", "5", "5", "C">>) >>
        ELSE <<>>
      linux ==
        IF Contains(pattern, <<"/", "v", "a", "r", "/">>) \/ Contains(pattern, <<"/", "e", "t", "c", "/">>) \/ Contains(pattern, <<"/", "h", "o", "m", "e", "/">>)
        THEN << R(<<"/", "v", "a", "r", "/">>, <<"%", "2", "F", "v", "a", "r", "%", "2", "F">>), R(<<"/", "v", "a", "r", "/">>, <<"%", "2", "5", "2", "F", "v", "a", "r", "%", "2", "5", "2", "F">>),
                R(<<"/", "e", "t", "c", "/">>, <<"%", "2", "F", "e", "t", "c", "%", "2", "F">>), R(<<"/", "e", "t", "c", "/">>, <<"%", "2", "5", "2", "F", "e", "t", "c", "%", "2", "5", "2", "F">>),
                R(<<"/", "h", "o", "m", "e", "/">>, <<"%", "2", "F", "h", "o", "m", "e", "%", "2", "F">>), R(<<"/", "h", "o", "m", "e", "/">>, <<"%", "2", "5", "2", "F", "h", "o", "m", "e", "%", "2", "5", "2", "F">>) >>
        ELSE <<>>
      variations == basic \o double \o triple \o mixed \o separators \o unicode
                    \o subdirs \o windows \o linux
  IN Dedup(SelectSeq(variations, LAMBDA var : var # pattern /\ Len(var) > 10))

\* null_encodings of _generate_null_byte_variations_for_path_validation
pv_null_encodings ==
  << <<"%", "0", "0">>, <<"%", "2", "5", "0", "0">>, <<"%", "2", "5", "2", "5", "0", "0">>, <<"%", "c", "0", "%", "8", "0">>, <<"%", "e", "0", "%", "8", "0", "%", "8", "0">>, <<"%", "0", "0", "%", "2", "0">>, <<"%", "2", "0", "%", "0", "0">> >>

\* fake_extensions of _generate_null_byte_variations_for_path_validation
pv_fake_extensions == << <<".", "p", "n", "g">>, <<".", "j", "p", "g">>, <<".", "p", "d", "f">>, <<".", "t", "x", "t">>, <<".", "l", "o", "g">>, <<".", "b", "a", "c", "k", "u", "p">> >>

\* subdirs of _generate_null_byte_variations_for_path_validation
pv_subdirs == << <<"i", "m", "a", "g", "e", "s">>, <<"u", "p", "l", "o", "a", "d", "s">>, <<"f", "i", "l", "e", "s">>, <<"d", "o", "c", "u", "m", "e", "n", "t", "s">>, <<"m", "e", "d", "i", "a">>, <<"s", "t", "a", "t", "i", "c">> >>

\* _generate_null_byte_variations_for_path_validation
generate_null_byte_variations_for_path_validation(prefix, sequence, target_file, extension) ==
  LET null_encodings == Take(pv_null_encodings, NNull)
      test_extensions == TestExtensions(extension, Take(pv_fake_extensions, NExt))
      encoded_sequence == Replace(Replace(sequence, <<".", ".", "/">>, <<"%", "2", "e", "%", "2", "e", "%", "2", "f">>), <<".", ".", "\\">>, <<"%", "2", "e", "%", "2", "e", "%", "5", "c">>)
      parts == Split(Replace(target_file, <<"\\">>, <<"/">>), "/")
      basic ==
        Flat(Flat([n \in 1..Len(null_encodings) |-> [x \in 1..Len(Take(test_extensions, 4)) |->
          LET null_enc == null_encodings[n]
              fake_ext == test_extensions[x]
          IN << prefix \o sequence \o target_file \o null_enc \o fake_ext,
                prefix \o sequence \o target_file \o null_enc \o fake_ext \o <<".", "b", "a", "c", "k", "u", "p">> >>
             \o (IF encoded_sequence # sequence
                 THEN << prefix \o encoded_sequence \o target_file \o null_enc \o fake_ext >>
                 ELSE <<>>)
             \o << prefix \o sequence \o target_file \o null_enc \o <<"%", "0", "0">> \o fake_ext >>
             \o (IF (Contains(target_file, <<"/">>) \/ Contains(target_file, <<"\\">>)) /\ Len(parts) > 1
                 THEN << prefix \o sequence \o Join(SubSeq(parts, 1, Len(parts) - 1), <<"/">>)
                         \o null_enc \o <<"/">> \o parts[Len(parts)] \o fake_ext >>
                 ELSE <<>>)]]))
      by_subdir ==
        Flat(Flat(Flat([d \in 1..Len(pv_subdirs) |->
          IF Contains(Lower(prefix), pv_subdirs[d])
          THEN [n \in 1..Len(Take(null_encodings, 3)) |-> [x \in 1..Len(Take(test_extensions, 3)) |->
                 LET modified_prefix == Replace(prefix, pv_subdirs[d] \o <<"/">>,
                                                pv_subdirs[d] \o null_encodings[n] \o <<"/">>)
                 IN IF modified_prefix # prefix
                    THEN << modified_prefix \o sequence \o target_file \o test_extensions[x] >>
                    ELSE <<>>]]
          ELSE <<>>])))
      double_encoded_seq ==
        Replace(Replace(sequence, <<".", ".", "/">>, <<"%", "2", "5", "2", "e", "%", "2", "5", "2", "e", "%", "2", "5", "2", "f">>), <<".", ".", "\\">>, <<"%", "2", "5", "2", "e", "%", "2", "5", "2", "e", "%", "2", "5", "5", "c">>)
      triple_encoded_seq == Replace(sequence, <<".", ".", "/">>, <<"%", "2", "5", "2", "5", "2", "e", "%", "2", "5", "2", "5", "2", "e", "%", "2", "5", "2", "5", "2", "f">>)
      double_encoding ==
        Flat([x \in 1..Len(Take(test_extensions, 2)) |->
          IF double_encoded_seq # sequence
          THEN << prefix \o double_encoded_seq \o target_file \o <<"%", "2", "5", "0", "0">> \o test_extensions[x] >>
               \o (IF triple_encoded_seq # sequence
                   THEN << prefix \o triple_encoded_seq \o target_file \o <<"%", "2", "5", "2", "5", "0", "0">> \o test_extensions[x] >>
                   ELSE <<>>)
          ELSE <<>>])
  IN Dedup(SelectSeq(basic \o by_subdir \o double_encoding, LAMBDA var : Len(var) > 15))

\* _generate_path_validation_bypass_patterns
generate_path_validation_bypass_patterns(os_type, specific_file, extra_files, extension, max_depth) ==
  LET legitimate_prefixes == get_legitimate_path_prefixes(os_type)
      target_files == get_target_files(os_type, specific_file, extra_files)
      traversal_sequences == generate_traversal_sequences_for_validation_bypass(max_depth)
  IN Flat(Flat(Flat([p \in 1..Len(legitimate_prefixes) |->
       [q \in 1..Len(traversal_sequences) |-> [f \in 1..Len(target_files) |->
         LET prefix == legitimate_prefixes[p]
             sequence == traversal_sequences[q]
             clean_target == LStrip(LStrip(target_files[f], "/"), "\\")
             pattern == prefix \o sequence \o clean_target \o extension
             V(s) == Built("path_validation", sequence, target_files[f], clean_target, s)
             encoded_variations == generate_encoded_variations_for_path_validation(pattern)
             null_byte_variations ==
               generate_null_byte_variations_for_path_validation(prefix, sequence, clean_target, extension)
         IN <<V(pattern)>>
            \o [i \in 1..Len(encoded_variations) |-> V(encoded_variations[i])]
            \o [i \in 1..Len(null_byte_variations) |-> V(null_byte_variations[i])]]]])))

\* _generate_all_methods without the three tests of bisection_depth: the
\* null-byte, absolute and path-validation families are always appended
generate_all_methods_always_families(os_type, depth, specific_file, extra_files, extension, bisection_depth, include_absolute) ==
  LET max_depth == IF bisection_depth # 0 THEN bisection_depth ELSE depth
      min_depth == IF bisection_depth # 0 THEN bisection_depth ELSE 1
      traversal_strings == Repetitions(generate_patterns, min_depth, max_depth)
      special_traversals == Repetitions(Take(SPECIAL_PATTERNS, NSpecial), min_depth, max_depth)
      nonrecursive_traversals == generate_nonrecursive_bypass_traversals(max_depth)
      target_files == get_target_files(os_type, specific_file, extra_files)
  IN CombineAdapted("traversal", traversal_strings, target_files, extension)
     \o CombineAdapted("special", special_traversals, target_files, extension)
     \o CombineAdapted("non_recursive", nonrecursive_traversals, target_files, extension)
     \o (IF TRUE
         THEN generate_null_byte_bypass_patterns(os_type, specific_file, extra_files, extension, max_depth)
         ELSE <<>>)
     \o (IF include_absolute
         THEN generate_absolute_patterns(os_type, specific_file, extra_files, extension)
         ELSE <<>>)
     \o (IF TRUE
         THEN generate_path_validation_bypass_patterns(os_type, specific_file, extra_files, extension, max_depth)
         ELSE <<>>)

\* _generate_all_methods
generate_all_methods(os_type, depth, specific_file, extra_files, extension, bisection_depth, include_absolute) ==
  LET max_depth == IF bisection_depth # 0 THEN bisection_depth ELSE depth
      min_depth == IF bisection_depth # 0 THEN bisection_depth ELSE 1
      traversal_strings == Repetitions(generate_patterns, min_depth, max_depth)
      special_traversals == Repetitions(Take(SPECIAL_PATTERNS, NSpecial), min_depth, max_depth)
      nonrecursive_traversals == generate_nonrecursive_bypass_traversals(max_depth)
      target_files == get_target_files(os_type, specific_file, extra_files)
  IN CombineAdapted("traversal", traversal_strings, target_files, extension)
     \o CombineAdapted("special", special_traversals, target_files, extension)
     \o CombineAdapted("non_recursive", nonrecursive_traversals, target_files, extension)
     \o (IF bisection_depth = 0
         THEN generate_null_byte_bypass_patterns(os_type, specific_file, extra_files, extension, max_depth)
         ELSE <<>>)
     \o (IF include_absolute /\ bisection_depth = 0
         THEN generate_absolute_patterns(os_type, specific_file, extra_files, extension)
         ELSE <<>>)
     \o (IF bisection_depth = 0
         THEN generate_path_validation_bypass_patterns(os_type, specific_file, extra_files, extension, max_depth)
         ELSE <<>>)

\* generate_traversals
generate_traversals(os_type, depth, specific_file, extra_files, extension, bisection_depth, include_absolute, detection_method) ==
  CASE detection_method = "any" ->
         generate_all_methods(os_type, depth, specific_file, extra_files, extension, bisection_depth, include_absolute)
    [] detection_method = "simple" ->
         generate_simple_traversals(os_type, depth, specific_file, extra_files, extension, bisection_depth)
    [] detection_method = "absolute_path" ->
         generate_absolute_patterns(os_type, specific_file, extra_files, extension)
    [] detection_method = "non_recursive" ->
         generate_non_recursive_traversals(os_type, depth, specific_file, extra_files, extension, bisection_depth)
    [] detection_method = "url_encoding" ->
         generate_url_encoding_traversals(os_type, depth, specific_file, extra_files, extension, bisection_depth)
    [] detection_method = "path_validation" ->
         generate_path_validation_bypass_patterns(os_type, specific_file, extra_files, extension, depth)
    [] detection_method = "null_byte" ->
         generate_null_byte_bypass_patterns(os_type, specific_file, extra_files, extension, depth)

\* the strings of a list of payloads: what the engine returns
Strings(payloads) == [i \in 1..Len(payloads) |-> payloads[i].s]

(***************************************************************************)
(* State                                                                   *)
(***************************************************************************)
VARIABLES
  \* one call of TraversalEngine.generate_traversals
  gpc,              \* "call" before the call, "returned" after it; "main" and
                    \* "generate" in a command that leads to it, "exit" after
                    \* typer.Exit
  args,             \* the arguments of the call
  traversals,       \* the list it returned, every string with its origin
  \* one call of BisectionAlgorithm.find_exact_depth
  bpc,              \* "loop" inside the while loop, "returned" after it
  tester,           \* the tester handed in: see Answers
  bargs,            \* the other arguments of the call
  left, right,
  exact_depth,      \* 0 is None
  asked,            \* the depths tested so far, each with the answer of the inner loop
  found,            \* the value returned (0 is None)
  \* one run of a protocol fuzzer (fuzz or fuzz_async)
  dpc,              \* where the loop is: "loop", "slept", "probed", "callback",
                    \* "done"; in a run followed at its blocking points also
                    \* "sleeping", "request", "closing" (the quit of the FTP
                    \* probe), "search" (inside find_exact_depth)
  opts,             \* the fuzzer and the arguments of the run
  sleeps,           \* the payloads before whose request the loop slept
  total,            \* len(traversals); a payload is named by its position 1..total
  i,                \* the iterations completed
  answer,           \* what the network did with the current request
  result,           \* the dictionary _test_traversal returned for it
  probed,           \* every dictionary _test_traversal returned, in order
  vulnerabilities, false_positives, errors,   \* the lists of the results dictionary
  calls,            \* the calls of progress_callback
  bisections,       \* the payloads _run_bisection was called for
  exit,             \* how the loop ended
  \* a cancellation of a run that is under way
  signal,           \* "none", "pending" (requested, not yet raised in the loop),
                    \* "raised" (caught by the loop), "swallowed" (caught elsewhere)
  since,            \* the blocking operations the run began after the signal
  \* one call of TFTPFuzzer._create_tftp_request
  tpc,              \* "call" before the call, "returned" after it
  filename,         \* its argument, a string
  request_packet,   \* the packet it returned, a tuple of bytes
  \* one run of the command-line process
  cpc,              \* where the command is: "validate", "generate", "build",
                    \* "fuzz", "report", "exit"
  cmd,              \* the command and its options
  events,           \* what happened to the run: "invalid_config", "error" (one
                    \* that continue_on_error does not cover), "interrupt"
  exit_code,        \* the exit code of the process
  \* the calls of generate_traversals made in one process
  history,          \* one record per call, in order: the engine called, the
                    \* arguments, the list returned
  \* one probe (_test_traversal) of the FTP, TFTP or payload fuzzer
  ppc,              \* where the probe is: "start", "login", "retr", "quit",
                    \* "exchange", "finally", "returned", "collected"
  probe,            \* the fuzzer: its protocol and, for payload, ssl_enabled
  conn,             \* the socket of the probe: "none" before it exists, "open",
                    \* "closed" once close() was called on it
  path,             \* the operations of the probe so far, each with its outcome
  \* the scans of the REST API
  scan_results,     \* the dictionary scan_results: scan id -> status
  tasks,            \* the background task of every scan id: "queued", "done",
                    \* "crashed" (ended by an exception nothing handled)
  deleted           \* the scan ids delete_scan removed

genVars == <<gpc, args, traversals>>
bisVars == <<bpc, tester, bargs, left, right, exact_depth, asked, found>>
drvVars == <<dpc, opts, sleeps, total, i, answer, result, probed,
             vulnerabilities, false_positives, errors, calls, bisections, exit>>
sigVars == <<signal, since>>
pktVars == <<tpc, filename, request_packet>>
cliVars == <<cpc, cmd, events, exit_code>>
engVars == <<history>>
sockVars == <<ppc, probe, conn, path>>
apiVars == <<scan_results, tasks, deleted>>
moreVars == <<engVars, sockVars, apiVars>>
otherVars == <<sigVars, pktVars, cliVars, moreVars>>
vars == <<genVars, bisVars, drvVars, otherVars>>

\* the engine, the search and the fuzzers are separate objects: a
\* specification runs one of them and leaves the other two as constructed
genIdle == gpc = "idle" /\ args = <<>> /\ traversals = <<>>

bisIdle ==
  /\ bpc = "idle" /\ tester = <<>> /\ bargs = <<>>
  /\ left = 0 /\ right = 0
  /\ exact_depth = 0 /\ asked = <<>> /\ found = 0

drvIdle ==
  /\ dpc = "idle" /\ opts = <<>> /\ sleeps = <<>>
  /\ total = 0 /\ i = 0 /\ answer = <<>> /\ result = <<>> /\ probed = <<>>
  /\ vulnerabilities = <<>> /\ false_positives = <<>> /\ errors = <<>>
  /\ calls = <<>> /\ bisections = <<>> /\ exit = "none"

\* the exit code of a process that runs
NoExit == 0 - 1

sigIdle == signal = "none" /\ since = <<>>

pktIdle == tpc = "idle" /\ filename = <<>> /\ request_packet = <<>>

cliIdle == cpc = "idle" /\ cmd = <<>> /\ events = {} /\ exit_code = NoExit

engIdle == history = <<>>

sockIdle == ppc = "idle" /\ probe = <<>> /\ conn = "none" /\ path = <<>>

apiIdle == scan_results = <<>> /\ tasks = <<>> /\ deleted = {}

moreIdle == engIdle /\ sockIdle /\ apiIdle

otherIdle == sigIdle /\ pktIdle /\ cliIdle /\ moreIdle

(***************************************************************************)
(* The generator: one call of generate_traversals                          *)
(***************************************************************************)
DetectionMethods ==
  {"any", "simple", "absolute_path", "non_recursive", "url_encoding",
   "path_validation", "null_byte"}

\* the methods whose output is the large families; "any" without
\* bisection_depth contains the three of them
LargeOutput(a) ==
  \/ a.detection_method \in {"null_byte", "absolute_path", "path_validation"}
  \/ a.detection_method = "any" /\ a.bisection_depth = 0

\* specific_file: None, a path with a leading separator, and a path whose
\* leading separators are a backslash followed by a slash
TargetFiles == {<<>>, <<"/", "e", "t", "c", "/", "p", "a", "s", "s", "w", "d">>, <<"\\", "/", "x">>}

AllInputs ==
  [os_type : {"unix", "windows", "generic"},
   depth : 1..MaxDepth,
   specific_file : TargetFiles,
   extra_files : BOOLEAN,
   extension : {<<>>, <<".", "t", "x", "t">>},
   bisection_depth : 0..MaxDepth,
   detection_method : DetectionMethods]

\* the calls explored: every combination for the small outputs, and the
\* large families with the target file given; of these, the absolute-path
\* method with and without extra_files
GenInputs ==
  {a \in AllInputs :
     LargeOutput(a) =>
       /\ a.specific_file = <<"/", "e", "t", "c", "/", "p", "a", "s", "s", "w", "d">>
       /\ a.extra_files => a.detection_method = "absolute_path"}

GenInit ==
  /\ gpc = "call" /\ args \in GenInputs /\ traversals = <<>>
  /\ bisIdle /\ drvIdle /\ otherIdle

Generate ==
  /\ gpc = "call"
  /\ traversals' = generate_traversals(args.os_type, args.depth, args.specific_file,
                                      args.extra_files, args.extension,
                                      args.bisection_depth, TRUE, args.detection_method)
  /\ gpc' = "returned"
  /\ UNCHANGED <<args, bisVars, drvVars, otherVars>>

GenNext == Generate

SpecGen == GenInit /\ [][GenNext]_vars

(***************************************************************************)
(* Properties of the generator                                             *)
(***************************************************************************)
\* the elements of a list, as a set
Elements(seq) == {seq[n] : n \in DOMAIN seq}

\* the families whose payloads are a repeated pattern followed by the target
PrefixFamilies == {"traversal", "special", "non_recursive", "simple", "url_encoding"}

\* the families that a bisection call is meant to leave out
SkippedFamilies == {"null_byte", "absolute_path", "path_validation"}

\* the methods that read bisection_depth
DepthMethods == {"any", "simple", "url_encoding", "non_recursive"}

\* the patterns a method repeats with a loop over the repetition count
RepeatedPatterns(detection_method) ==
  CASE detection_method = "simple" -> Elements(basic_patterns)
    [] detection_method = "url_encoding" -> Elements(encoded_patterns)
    [] detection_method = "non_recursive" -> {}
    [] OTHER ->
         Elements(generate_patterns) \cup Elements(Take(SPECIAL_PATTERNS, NSpecial))

\* every pattern a method starts from, the non-recursive ones included
BasePatterns(detection_method) ==
  RepeatedPatterns(detection_method)
  \cup (IF detection_method \in {"any", "non_recursive"}
        THEN Elements(Take(NON_RECURSIVE_BYPASS_PATTERNS, NNonRec))
             \cup Elements(Take(core_bypass_patterns, NCore))
        ELSE {})

\* the repetition counts a call asks for
Counts(a) == IF a.bisection_depth # 0 THEN {a.bisection_depth} ELSE 1..a.depth

\* the traversal prefixes of the payloads of the prefix families
PrefixesOf(payloads) ==
  {payloads[n].trav : n \in {m \in DOMAIN payloads : payloads[m].fam \in PrefixFamilies}}

\* C8: the list returned by generate_traversals contains no string twice.
C8_NoDuplicates ==
  gpc = "returned" => Cardinality(Elements(Strings(traversals))) = Len(traversals)

\* C9: with bisection_depth = k every traversal prefix is a base pattern
\* repeated exactly k times; without it the prefixes are base patterns
\* repeated i times with i in 1..depth, every such repetition of a repeated
\* pattern is present, and no prefix has another count.
C9_ExactRepetition ==
  (gpc = "returned" /\ args.detection_method \in DepthMethods) =>
    /\ \A b \in RepeatedPatterns(args.detection_method) : \A k \in Counts(args) :
         Rep(b, k) \in PrefixesOf(traversals)
    /\ \A p \in PrefixesOf(traversals) :
         \E b \in BasePatterns(args.detection_method) : \E k \in Counts(args) :
           p = Rep(b, k)

\* C10 as stated: with bisection_depth given, for every detection method,
\* no null-byte, absolute-path or path-validation payload is emitted.
C10_NoFamiliesAnyMethod ==
  (gpc = "returned" /\ args.bisection_depth # 0) =>
    \A n \in DOMAIN traversals : traversals[n].fam \notin SkippedFamilies

\* C10 amended: with bisection_depth given, for the detection methods any,
\* simple, url_encoding and non_recursive, no null-byte, absolute-path or
\* path-validation payload is emitted: every payload is a traversal prefix
\* followed by the target.
C10_NoFamiliesDepthMethods ==
  (gpc = "returned" /\ args.bisection_depth # 0 /\ args.detection_method \in DepthMethods) =>
    \A n \in DOMAIN traversals : traversals[n].fam \in PrefixFamilies

\* a bisection call of method any that returned payloads
C10_Witness ==
  /\ gpc = "returned"
  /\ args.bisection_depth # 0
  /\ args.detection_method = "any"
  /\ traversals # <<>>

\* the path separators
Separators == {"/", "\\"}

\* the payloads built as traversal prefix + target (+ extension)
PrefixPayloads == {n \in DOMAIN traversals : traversals[n].fam \in PrefixFamilies}

\* C11: for a target file that begins with / or \, no payload contains a
\* doubled separator that its traversal prefix does not contain, and the
\* target part of a payload does not begin with a separator.
C11_NoDoubledSeparator ==
  (gpc = "returned" /\ args.specific_file # <<>> /\ args.specific_file[1] \in Separators) =>
    \A n \in PrefixPayloads :
      /\ \A c \in Separators :
           Contains(traversals[n].s, <<c, c>>) => Contains(traversals[n].trav, <<c, c>>)
      /\ traversals[n].tgt # <<>> => traversals[n].tgt[1] \notin Separators

AbsolutePayloads == {n \in DOMAIN traversals : traversals[n].trav = <<>>}

\* the absolute versions of EXTRA_FILES that _get_absolute_target_files adds
ExtraAbsoluteFiles ==
  {d \o f : d \in {<<"C", ":", "\\">>, <<"C", ":", "\\", "i", "n", "e", "t", "p", "u", "b", "\\", "w", "w", "w", "r", "o", "o", "t", "\\">>, <<"/">>, <<"/", "v", "a", "r", "/", "w", "w", "w", "/", "h", "t", "m", "l", "/">>},
            f \in Elements(EXTRA_FILES)}

EncodingLevel(trav) ==
  LET levels == {k \in 1..Len(EncFwd) :
                   \/ Contains(Lower(trav), EncFwd[k])
                   \/ Contains(Lower(trav), EncBack[k])}
  IN IF levels = {} THEN 0 ELSE CHOOSE k \in levels : \A j \in levels : j <= k

\* the literal backslash separator of a prefix: SLASHES writes it doubled
LiteralBackslash(trav) == IF Contains(trav, <<"\\", "\\">>) THEN <<"\\", "\\">> ELSE <<"\\">>

\* the target file with its separators rewritten to those of the prefix
MatchingSeparators(file, trav) ==
  LET k == EncodingLevel(trav)
  IN IF k # 0 THEN Replace(Replace(file, <<"/">>, EncFwd[k]), <<"\\">>, EncBack[k])
     ELSE IF Contains(trav, <<"\\">>) THEN Replace(file, <<"/">>, LiteralBackslash(trav))
     ELSE IF Contains(trav, <<"/">>) THEN Replace(file, <<"\\">>, <<"/">>)
     ELSE file

\* the families _generate_all_methods combines with adapted target files
AdaptedFamilies == {"traversal", "special", "non_recursive"}

\* C13: for every prefix and target file that the method any combines, a
\* payload is emitted whose target has its separators rewritten to those of
\* the prefix: the encoding of the same level for an encoded prefix, \ for a
\* prefix with literal \, / for a prefix with literal /.
C13_TargetAdaptedToPrefix ==
  (gpc = "returned" /\ args.detection_method = "any") =>
    \A n \in DOMAIN traversals : traversals[n].fam \in AdaptedFamilies =>
      \E m \in DOMAIN traversals :
        /\ traversals[m].trav = traversals[n].trav
        /\ traversals[m].file = traversals[n].file
        /\ traversals[m].tgt =
             normalize_target_file(MatchingSeparators(traversals[n].file, traversals[n].trav))

(***************************************************************************)
(* The ways into the generator: the library call and the two commands      *)
(***************************************************************************)
\* the range of the depth that main accepts
DepthLimit == 50

\* a depth below the range, one inside it and one above it
EntryDepths == {0, 1, DepthLimit + 1}

InvalidDepth(depth) == depth < 1 \/ depth > DepthLimit

\* a call of generate_traversals by a program that uses the engine
LibraryInputs ==
  {a \in [os_type : {"unix", "windows", "generic"},
          depth : EntryDepths,
          specific_file : {<<"/", "e", "t", "c", "/", "p", "a", "s", "s", "w", "d">>},
          extra_files : {FALSE},
          extension : {<<>>, <<".", "t", "x", "t">>},
          bisection_depth : {0},
          detection_method : {"simple", "non_recursive", "url_encoding"}] :
     a.depth > DepthLimit => a.detection_method = "simple"}

\* generate_traversal_list, which both commands end in, passes no
\* detection method and no bisection depth
CommandInputs ==
  [os_type : {"unix", "windows", "generic"},
   depth : EntryDepths,
   specific_file : {<<"/", "e", "t", "c", "/", "p", "a", "s", "s", "w", "d">>},
   extra_files : {FALSE},
   extension : {<<>>, <<".", "t", "x", "t">>},
   bisection_depth : {0},
   detection_method : {"any"}]

EntryInit ==
  /\ \/ gpc = "call" /\ args \in LibraryInputs
     \/ gpc = "generate" /\ args \in CommandInputs /\ args.depth <= DepthLimit
     \/ gpc = "main" /\ args \in CommandInputs
  /\ traversals = <<>>
  /\ bisIdle /\ drvIdle /\ otherIdle

\* the command generate: no test of its options
generate_traversals_cmd ==
  /\ gpc = "generate"
  /\ gpc' = "call"
  /\ UNCHANGED <<args, traversals, bisVars, drvVars, otherVars>>

\* the command main with the module stdout: the range validation, then
\* handle_stdout_module
main ==
  /\ gpc = "main"
  /\ gpc' = IF InvalidDepth(args.depth) THEN "exit" ELSE "call"
  /\ UNCHANGED <<args, traversals, bisVars, drvVars, otherVars>>

EntryNext == generate_traversals_cmd \/ main \/ Generate

SpecEntry == EntryInit /\ [][EntryNext]_vars

\* C14: a depth below 1 or above 50 is rejected on every way into the
\* generator: the call does not return and no payload is emitted.
C14_InvalidDepthRejected ==
  InvalidDepth(args.depth) => gpc # "returned" /\ traversals = <<>>

(***************************************************************************)
(* The bisection search: one call of find_exact_depth                      *)
(***************************************************************************)
MaxBisect == 4

BisectDepths == 1..MaxBisect

BisectFiles == {<<>>, <<"/", "e", "t", "c", "/", "p", "a", "s", "s", "w", "d">>}

\* engine.generate_traversals(os_type, depth=mid, specific_file, extension,
\* bisection_depth=mid): extra_files, include_absolute and detection_method
\* take their defaults
bisection_traversals(a, mid) ==
  Strings(generate_traversals(a.os_type, mid, a.specific_file, FALSE, a.extension,
                              mid, TRUE, "any"))

\* the strings of a list, as a set
StringSet(generated) == {generated[n] : n \in DOMAIN generated}

\* the sets of strings generated for the depths 1..MaxBisect; SelectSeq
\* makes the table a tuple, computed once
GeneratedFor(a) ==
  SelectSeq([d \in BisectDepths |-> StringSet(bisection_traversals(a, d))], LAMBDA s : TRUE)

\* A tester is an arbitrary callable: it is the set of the payloads on
\* which it answers true.  The testers explored answer true on the payloads
\* generated for the depths in a set D: on all of them ("whole") or on
\* those that are generated for no other depth ("only").  G is the table
\* GeneratedFor of the call.
TestersOver(G) ==
  {[kind |-> kind, depths |-> D,
    answers |-> {t \in UNION {G[d] : d \in D} :
                   kind = "only" => \A e \in BisectDepths \ D : t \notin G[e]}] :
     kind \in {"whole", "only"}, D \in SUBSET BisectDepths}

\* tester.test_vulnerability(traversal)
test_vulnerability(t, traversal) == traversal \in t.answers

BisInit ==
  /\ bpc = "loop"
  /\ bargs \in [min_depth : BisectDepths, max_depth : BisectDepths,
                os_type : {"unix"}, specific_file : BisectFiles, extension : {<<>>}]
  /\ \E G \in {GeneratedFor(bargs)} : tester \in TestersOver(G)
  /\ left = bargs.min_depth
  /\ right = bargs.max_depth
  /\ exact_depth = 0
  /\ asked = <<>>
  /\ found = 0
  /\ genIdle /\ drvIdle /\ otherIdle

\* the inner loop "for traversal in traversals": true when the tester
\* answers true on one of the payloads generated for depth mid
depth_is_vulnerable(a, t, mid) ==
  \E traversal \in StringSet(bisection_traversals(a, mid)) : test_vulnerability(t, traversal)

\* mid = (left + right) // 2
midpoint(l, r) == (l + r) \div 2

\* BisectStep with the halves swapped: after a vulnerable depth the search
\* goes on above it
BisectStep_wrong_half ==
  /\ bpc = "loop"
  /\ left <= right
  /\ IF depth_is_vulnerable(bargs, tester, midpoint(left, right))
     THEN /\ exact_depth' = midpoint(left, right)
          /\ left' = midpoint(left, right) + 1
          /\ right' = right
          /\ asked' = Append(asked, [depth |-> midpoint(left, right), vulnerable |-> TRUE])
     ELSE /\ exact_depth' = exact_depth
          /\ right' = midpoint(left, right) - 1
          /\ left' = left
          /\ asked' = Append(asked, [depth |-> midpoint(left, right), vulnerable |-> FALSE])
  /\ UNCHANGED <<bpc, tester, bargs, found, genVars, drvVars, otherVars>>

\* BisectStep with right = mid - 2: the depth below a vulnerable one is
\* skipped
BisectStep_skips_a_depth ==
  /\ bpc = "loop"
  /\ left <= right
  /\ IF depth_is_vulnerable(bargs, tester, midpoint(left, right))
     THEN /\ exact_depth' = midpoint(left, right)
          /\ right' = midpoint(left, right) - 2
          /\ left' = left
          /\ asked' = Append(asked, [depth |-> midpoint(left, right), vulnerable |-> TRUE])
     ELSE /\ exact_depth' = exact_depth
          /\ left' = midpoint(left, right) + 1
          /\ right' = right
          /\ asked' = Append(asked, [depth |-> midpoint(left, right), vulnerable |-> FALSE])
  /\ UNCHANGED <<bpc, tester, bargs, found, genVars, drvVars, otherVars>>

\* BisectStep with left = mid: after a depth that is not vulnerable the
\* search keeps that depth in the interval
BisectStep_keeps_mid ==
  /\ bpc = "loop"
  /\ left <= right
  /\ IF depth_is_vulnerable(bargs, tester, midpoint(left, right))
     THEN /\ exact_depth' = midpoint(left, right)
          /\ right' = midpoint(left, right) - 1
          /\ left' = left
          /\ asked' = Append(asked, [depth |-> midpoint(left, right), vulnerable |-> TRUE])
     ELSE /\ exact_depth' = exact_depth
          /\ left' = midpoint(left, right)
          /\ right' = right
          /\ asked' = Append(asked, [depth |-> midpoint(left, right), vulnerable |-> FALSE])
  /\ UNCHANGED <<bpc, tester, bargs, found, genVars, drvVars, otherVars>>

\* one iteration of "while left <= right"
BisectStep ==
  /\ bpc = "loop"
  /\ left <= right
  /\ IF depth_is_vulnerable(bargs, tester, midpoint(left, right))
     THEN /\ exact_depth' = midpoint(left, right)
          /\ right' = midpoint(left, right) - 1
          /\ left' = left
          /\ asked' = Append(asked, [depth |-> midpoint(left, right), vulnerable |-> TRUE])
     ELSE /\ exact_depth' = exact_depth
          /\ left' = midpoint(left, right) + 1
          /\ right' = right
          /\ asked' = Append(asked, [depth |-> midpoint(left, right), vulnerable |-> FALSE])
  /\ UNCHANGED <<bpc, tester, bargs, found, genVars, drvVars, otherVars>>

\* the loop ends: return exact_depth (None when it was never set)
BisectReturn ==
  /\ bpc = "loop"
  /\ left > right
  /\ found' = exact_depth
  /\ bpc' = "returned"
  /\ UNCHANGED <<tester, bargs, left, right, exact_depth, asked, genVars, drvVars, otherVars>>

BisNext == BisectStep \/ BisectReturn

SpecBis == BisInit /\ [][BisNext]_vars

(***************************************************************************)
(* Properties of the bisection search                                      *)
(***************************************************************************)
\* the depths of [min_depth, max_depth] at which some generated payload
\* makes the tester answer true
VulnerableDepths ==
  {d \in bargs.min_depth..bargs.max_depth : depth_is_vulnerable(bargs, tester, d)}

\* the smallest element of a set of depths, 0 (None) when it is empty
Smallest(V) == IF V = {} THEN 0 ELSE CHOOSE d \in V : \A e \in V : d <= e

\* once vulnerable, vulnerable at every larger depth of the range
Monotone(V) ==
  \A d \in V : \A e \in bargs.min_depth..bargs.max_depth : d <= e => e \in V

\* C1: for a tester that answers true exactly on the payloads generated for
\* a depth >= k, with min_depth <= k <= max_depth, find_exact_depth
\* returns k.
C1_ReturnsK ==
  bpc = "returned" =>
    \A k \in bargs.min_depth..bargs.max_depth :
      (tester.kind = "whole" /\ tester.depths = k..MaxBisect) => found = k

\* C2 as stated: for any tester, find_exact_depth returns the smallest
\* depth of [min_depth, max_depth] at which some generated payload makes
\* the tester answer true, and None when there is none.
C2_SmallestForAnyTester ==
  bpc = "returned" => \A V \in {VulnerableDepths} : found = Smallest(V)

\* C2 amended: the same, for the testers whose answers are monotone in the
\* depth over [min_depth, max_depth].
C2_SmallestForMonotoneTester ==
  bpc = "returned" =>
    \A V \in {VulnerableDepths} : Monotone(V) => found = Smallest(V)

\* a monotone tester whose first vulnerable depth lies inside the range
C2_Witness ==
  /\ bpc = "returned"
  /\ bargs.min_depth < found /\ found < bargs.max_depth
  /\ \A V \in {VulnerableDepths} : Monotone(V)

\* C3: when find_exact_depth returns a depth d*, the tester answered true
\* for some payload of d*, and if d* > min_depth the depth d* - 1 was
\* tested and the tester answered false for every payload of it.
C3_BoundaryTested ==
  (bpc = "returned" /\ found # 0) =>
    /\ \E n \in DOMAIN asked : asked[n] = [depth |-> found, vulnerable |-> TRUE]
    /\ depth_is_vulnerable(bargs, tester, found)
    /\ found > bargs.min_depth =>
         /\ \E n \in DOMAIN asked : asked[n] = [depth |-> found - 1, vulnerable |-> FALSE]
         /\ ~depth_is_vulnerable(bargs, tester, found - 1)

\* a search that returned a depth above min_depth
C3_Witness ==
  /\ bpc = "returned"
  /\ found > bargs.min_depth
  /\ \E n \in DOMAIN asked : asked[n].depth = found - 1

(***************************************************************************)
(* The protocol fuzzers: _test_traversal of each, and the loop of fuzz     *)
(***************************************************************************)
MaxPayloads == 2

TFTP_DATA == 3
TFTP_ERROR == 5
HTTP_OK == 200

\* None, where the code stores a number
NoCode == 0 - 1

Protocols == {"http", "http_url", "ftp", "tftp", "payload"}

\* fuzz_async of the two HTTP fuzzers catches asyncio.CancelledError; fuzz of
\* the other three catches KeyboardInterrupt
AsyncProtocols == {"http", "http_url"}

\* the fuzzers whose results dictionary has a false_positives list
PatternProtocols == {"http", "http_url", "payload"}

Patterns == {<<>>, <<"r", "o", "o", "t", ":">>}
Bodies == {<<>>, <<"r", "o", "o", "t", ":", "x">>, <<"d", "e", "n", "i", "e", "d">>}
StatusCodes == {HTTP_OK, 404}
Messages == {<<"C", "o", "n", "n", "e", "c", "t", "i", "o", "n", " ", "r", "e", "s", "e", "t", " ", "b", "y", " ", "p", "e", "e", "r">>, <<"S", "e", "r", "v", "e", "r", " ", "d", "i", "s", "c", "o", "n", "n", "e", "c", "t", "e", "d">>}
RetrRefusals == {<<"5", "5", "0", " ", "N", "o", " ", "s", "u", "c", "h", " ", "f", "i", "l", "e">>, <<"5", "5", "3", " ", "N", "o", "t", " ", "a", "l", "l", "o", "w", "e", "d">>}
QuitOutcomes == {"ok", "error_temp", "reset", "exception"}

\* TFTP packets as bytes: too short, DATA, ERROR with and without a code,
\* ACK, and an opcode above 255
Packets ==
  {<<>>, <<0>>, <<0, 3>>, <<0, 3, 0, 1>>, <<0, 3, 0, 1, 114>>,
   <<0, 5>>, <<0, 5, 0, 0>>, <<0, 5, 0, 1>>, <<0, 5, 0, 2>>,
   <<0, 4, 0, 1>>, <<1, 5, 0, 2>>}

\* what the network does with one request
Answer(kind, status, body, message, closing) ==
  [kind |-> kind, status |-> status, body |-> body, message |-> message,
   closing |-> closing]

Failure(kind, message) == Answer(kind, NoCode, <<>>, message, "ok")

HttpAnswers ==
  {Answer("response", s, b, <<>>, "ok") : s \in StatusCodes, b \in Bodies}
  \cup {Failure("client_error", m) : m \in Messages}
  \cup {Failure("timeout", <<>>)}
  \cup {Failure("exception", m) : m \in Messages}

FtpAnswers ==
  {Answer("retrieved", NoCode, <<"r", "o", "o", "t", ":", "x">>, <<>>, q) : q \in QuitOutcomes}
  \cup {Answer("retr_error_perm", NoCode, <<>>, m, q) : m \in RetrRefusals, q \in {"ok", "reset"}}
  \cup {Failure("error_temp", <<"4", "2", "1", " ", "S", "e", "r", "v", "i", "c", "e", " ", "n", "o", "t", " ", "a", "v", "a", "i", "l", "a", "b", "l", "e">>),
        Failure("error_perm", <<"5", "3", "0", " ", "L", "o", "g", "i", "n", " ", "i", "n", "c", "o", "r", "r", "e", "c", "t">>),
        Failure("refused", <<>>), Failure("timeout", <<>>)}
  \cup {Failure("exception", m) : m \in Messages}

\* closing "timeout" of a DATA packet: the block was full and the read of
\* the next block, in _receive_remaining_blocks, timed out
TftpAnswers ==
  {Answer("packet", NoCode, p, <<>>, "ok") : p \in Packets}
  \cup {Answer("packet", NoCode, <<0, 3, 0, 1, 114>>, <<>>, "timeout")}
  \cup {Failure("timeout", <<>>), Failure("refused", <<>>)}
  \cup {Failure("exception", m) : m \in Messages}

\* "read_timeout": the connection was made and the read timed out, with the
\* bytes received until then
PayloadAnswers ==
  {Answer("response", NoCode, b, <<>>, "ok") : b \in Bodies}
  \cup {Answer("read_timeout", NoCode, b, <<>>, "ok") : b \in {<<>>, <<"d", "e", "n", "i", "e", "d">>}}
  \cup {Failure("refused", <<>>), Failure("timeout", <<>>)}
  \cup {Failure("ssl_error", m) : m \in Messages}
  \cup {Failure("exception", m) : m \in Messages}

Answers(protocol) ==
  CASE protocol \in {"http", "http_url"} -> HttpAnswers
    [] protocol = "ftp" -> FtpAnswers
    [] protocol = "tftp" -> TftpAnswers
    [] OTHER -> PayloadAnswers

\* the dictionary of one probe: error <<>> is None; code is status_code of
\* the HTTP fuzzers and tftp_error_code of the TFTP fuzzer; the FTP and TFTP
\* dictionaries have no false_positive key
Result(traversal, vulnerable, false_positive, error, code) ==
  [traversal |-> traversal, vulnerable |-> vulnerable,
   false_positive |-> false_positive, error |-> error, code |-> code]

\* HTTPFuzzer._test_traversal with a variant that reports every other status
\* as an error
http_test_traversal_no_status_test(traversal, pattern, response) ==
  IF response.kind = "response"
  THEN IF pattern # <<>>
       THEN IF Contains(response.body, pattern)
            THEN Result(traversal, TRUE, FALSE, <<>>, response.status)
            ELSE Result(traversal, FALSE, TRUE, <<>>, response.status)
       ELSE Result(traversal, TRUE, FALSE, <<>>, response.status)
  ELSE IF response.kind = "client_error"
  THEN Result(traversal, FALSE, FALSE, <<"C", "l", "i", "e", "n", "t", " ", "e", "r", "r", "o", "r", ":", " ">> \o response.message, NoCode)
  ELSE IF response.kind = "timeout"
  THEN Result(traversal, FALSE, FALSE, <<"R", "e", "q", "u", "e", "s", "t", " ", "t", "i", "m", "e", "o", "u", "t">>, NoCode)
  ELSE Result(traversal, FALSE, FALSE, <<"U", "n", "e", "x", "p", "e", "c", "t", "e", "d", " ", "e", "r", "r", "o", "r", ":", " ">> \o response.message, NoCode)

\* HTTPFuzzer._test_traversal
http_test_traversal(traversal, pattern, response) ==
  IF response.kind = "response"
  THEN IF response.status = HTTP_OK
       THEN IF pattern # <<>>
            THEN IF Contains(response.body, pattern)
                 THEN Result(traversal, TRUE, FALSE, <<>>, response.status)
                 ELSE Result(traversal, FALSE, TRUE, <<>>, response.status)
            ELSE Result(traversal, TRUE, FALSE, <<>>, response.status)
       ELSE Result(traversal, FALSE, FALSE, <<>>, response.status)
  ELSE IF response.kind = "client_error"
  THEN Result(traversal, FALSE, FALSE, <<"C", "l", "i", "e", "n", "t", " ", "e", "r", "r", "o", "r", ":", " ">> \o response.message, NoCode)
  ELSE IF response.kind = "timeout"
  THEN Result(traversal, FALSE, FALSE, <<"R", "e", "q", "u", "e", "s", "t", " ", "t", "i", "m", "e", "o", "u", "t">>, NoCode)
  ELSE Result(traversal, FALSE, FALSE, <<"U", "n", "e", "x", "p", "e", "c", "t", "e", "d", " ", "e", "r", "r", "o", "r", ":", " ">> \o response.message, NoCode)

\* HTTPURLFuzzer._test_traversal: the status is stored and not tested
http_url_test_traversal(traversal, pattern, response) ==
  IF response.kind = "response"
  THEN IF Contains(response.body, pattern)
       THEN Result(traversal, TRUE, FALSE, <<>>, response.status)
       ELSE Result(traversal, FALSE, TRUE, <<>>, response.status)
  ELSE IF response.kind = "client_error"
  THEN Result(traversal, FALSE, FALSE, <<"C", "l", "i", "e", "n", "t", " ", "e", "r", "r", "o", "r", ":", " ">> \o response.message, NoCode)
  ELSE IF response.kind = "timeout"
  THEN Result(traversal, FALSE, FALSE, <<"R", "e", "q", "u", "e", "s", "t", " ", "t", "i", "m", "e", "o", "u", "t">>, NoCode)
  ELSE Result(traversal, FALSE, FALSE, <<"U", "n", "e", "x", "p", "e", "c", "t", "e", "d", " ", "e", "r", "r", "o", "r", ":", " ">> \o response.message, NoCode)

\* FTPFuzzer._test_traversal: the retrieval, then ftp.quit() inside the same
\* try block, whose failure is caught by the outer handlers
ftp_test_traversal(traversal, response) ==
  IF response.kind \in {"retrieved", "retr_error_perm"}
  THEN LET retrieved == response.kind = "retrieved"
           refused == IF retrieved \/ Contains(response.message, <<"5", "5", "0">>) THEN <<>>
                      ELSE <<"F", "T", "P", " ", "p", "e", "r", "m", "i", "s", "s", "i", "o", "n", " ", "e", "r", "r", "o", "r", ":", " ">> \o response.message
       IN CASE response.closing = "ok" ->
                 Result(traversal, retrieved, FALSE, refused, NoCode)
            [] response.closing = "error_temp" ->
                 Result(traversal, retrieved, FALSE,
                        <<"F", "T", "P", " ", "t", "e", "m", "p", "o", "r", "a", "r", "y", " ", "e", "r", "r", "o", "r", ":", " ", "4", "2", "1", " ", "T", "i", "m", "e", "o", "u", "t">>, NoCode)
            [] response.closing = "reset" ->
                 Result(traversal, retrieved, FALSE,
                        <<"F", "T", "P", " ", "e", "r", "r", "o", "r", ":", " ", "C", "o", "n", "n", "e", "c", "t", "i", "o", "n", " ", "r", "e", "s", "e", "t", " ", "b", "y", " ", "p", "e", "e", "r">>, NoCode)
            [] OTHER ->
                 Result(traversal, retrieved, FALSE, <<"F", "T", "P", " ", "e", "r", "r", "o", "r", ":", " ", "E", "O", "F">>, NoCode)
  ELSE CASE response.kind = "error_temp" ->
              Result(traversal, FALSE, FALSE,
                     <<"F", "T", "P", " ", "t", "e", "m", "p", "o", "r", "a", "r", "y", " ", "e", "r", "r", "o", "r", ":", " ">> \o response.message, NoCode)
         [] response.kind = "error_perm" ->
              Result(traversal, FALSE, FALSE,
                     <<"F", "T", "P", " ", "p", "e", "r", "m", "i", "s", "s", "i", "o", "n", " ", "e", "r", "r", "o", "r", ":", " ">> \o response.message, NoCode)
         [] response.kind = "refused" ->
              Result(traversal, FALSE, FALSE, <<"C", "o", "n", "n", "e", "c", "t", "i", "o", "n", " ", "r", "e", "f", "u", "s", "e", "d">>, NoCode)
         [] response.kind = "timeout" ->
              Result(traversal, FALSE, FALSE, <<"C", "o", "n", "n", "e", "c", "t", "i", "o", "n", " ", "t", "i", "m", "e", "o", "u", "t">>, NoCode)
         [] OTHER ->
              Result(traversal, FALSE, FALSE, <<"F", "T", "P", " ", "e", "r", "r", "o", "r", ":", " ">> \o response.message, NoCode)

\* struct.unpack('!H', ...) of two bytes
Unpack(high, low) == high * 256 + low

\* TFTPFuzzer._parse_tftp_response
parse_tftp_response(data) ==
  IF Len(data) < 2 THEN [opcode |-> 0, error_code |-> NoCode]
  ELSE [opcode |-> Unpack(data[1], data[2]),
        error_code |-> IF Unpack(data[1], data[2]) = TFTP_ERROR /\ Len(data) >= 4
                       THEN Unpack(data[3], data[4]) ELSE NoCode]

\* str(opcode) for the opcodes of Packets
OpcodeText(opcode) ==
  CASE opcode = 0 -> <<"0">> [] opcode = 4 -> <<"4">> [] opcode = 261 -> <<"2", "6", "1">> [] OTHER -> <<"?">>

\* TFTPFuzzer._test_traversal with a variant that takes error code 1, file
\* not found, for the access violation
tftp_test_traversal_code_one(traversal, response) ==
  IF response.kind = "packet"
  THEN LET parsed_response == parse_tftp_response(response.body)
       IN IF parsed_response.opcode = TFTP_DATA
          THEN Result(traversal, TRUE, FALSE, <<>>, NoCode)
          ELSE IF parsed_response.opcode = TFTP_ERROR
          THEN IF parsed_response.error_code = 1
               THEN Result(traversal, TRUE, FALSE,
                           <<"A", "c", "c", "e", "s", "s", " ", "v", "i", "o", "l", "a", "t", "i", "o", "n", " ", "(", "f", "i", "l", "e", " ", "m", "a", "y", " ", "e", "x", "i", "s", "t", ")", ":", " ">>, parsed_response.error_code)
               ELSE Result(traversal, FALSE, FALSE, <<>>, parsed_response.error_code)
          ELSE Result(traversal, FALSE, FALSE,
                      <<"U", "n", "e", "x", "p", "e", "c", "t", "e", "d", " ", "T", "F", "T", "P", " ", "o", "p", "c", "o", "d", "e", ":", " ">> \o OpcodeText(parsed_response.opcode), NoCode)
  ELSE IF response.kind = "timeout"
  THEN Result(traversal, FALSE, FALSE,
              <<"R", "e", "q", "u", "e", "s", "t", " ", "t", "i", "m", "e", "o", "u", "t", " ", "-", " ", "n", "o", " ", "r", "e", "s", "p", "o", "n", "s", "e", " ", "f", "r", "o", "m", " ", "T", "F", "T", "P", " ", "s", "e", "r", "v", "e", "r">>, NoCode)
  ELSE IF response.kind = "refused"
  THEN Result(traversal, FALSE, FALSE, <<"C", "o", "n", "n", "e", "c", "t", "i", "o", "n", " ", "r", "e", "f", "u", "s", "e", "d">>, NoCode)
  ELSE Result(traversal, FALSE, FALSE, <<"T", "F", "T", "P", " ", "e", "r", "r", "o", "r", ":", " ">> \o response.message, NoCode)

\* TFTPFuzzer._test_traversal
tftp_test_traversal(traversal, response) ==
  IF response.kind = "packet"
  THEN LET parsed_response == parse_tftp_response(response.body)
       IN IF parsed_response.opcode = TFTP_DATA
          THEN Result(traversal, TRUE, FALSE, <<>>, NoCode)
          ELSE IF parsed_response.opcode = TFTP_ERROR
          THEN IF parsed_response.error_code = 2
               THEN Result(traversal, TRUE, FALSE,
                           <<"A", "c", "c", "e", "s", "s", " ", "v", "i", "o", "l", "a", "t", "i", "o", "n", " ", "(", "f", "i", "l", "e", " ", "m", "a", "y", " ", "e", "x", "i", "s", "t", ")", ":", " ">>, parsed_response.error_code)
               ELSE Result(traversal, FALSE, FALSE, <<>>, parsed_response.error_code)
          ELSE Result(traversal, FALSE, FALSE,
                      <<"U", "n", "e", "x", "p", "e", "c", "t", "e", "d", " ", "T", "F", "T", "P", " ", "o", "p", "c", "o", "d", "e", ":", " ">> \o OpcodeText(parsed_response.opcode), NoCode)
  ELSE IF response.kind = "timeout"
  THEN Result(traversal, FALSE, FALSE,
              <<"R", "e", "q", "u", "e", "s", "t", " ", "t", "i", "m", "e", "o", "u", "t", " ", "-", " ", "n", "o", " ", "r", "e", "s", "p", "o", "n", "s", "e", " ", "f", "r", "o", "m", " ", "T", "F", "T", "P", " ", "s", "e", "r", "v", "e", "r">>, NoCode)
  ELSE IF response.kind = "refused"
  THEN Result(traversal, FALSE, FALSE, <<"C", "o", "n", "n", "e", "c", "t", "i", "o", "n", " ", "r", "e", "f", "u", "s", "e", "d">>, NoCode)
  ELSE Result(traversal, FALSE, FALSE, <<"T", "F", "T", "P", " ", "e", "r", "r", "o", "r", ":", " ">> \o response.message, NoCode)

\* PayloadFuzzer._test_traversal with a variant that reports an empty
\* response as an error
payload_test_traversal_empty_is_error(traversal, pattern, response) ==
  IF response.kind \in {"response", "read_timeout"}
  THEN IF pattern # <<>> /\ response.body # <<>>
       THEN IF Contains(response.body, pattern)
            THEN Result(traversal, TRUE, FALSE, <<>>, NoCode)
            ELSE Result(traversal, FALSE, TRUE, <<>>, NoCode)
       ELSE IF response.body # <<>>
       THEN Result(traversal, TRUE, FALSE, <<>>, NoCode)
       ELSE Result(traversal, FALSE, FALSE, <<"N", "o", " ", "r", "e", "s", "p", "o", "n", "s", "e">>, NoCode)
  ELSE IF response.kind = "refused"
  THEN Result(traversal, FALSE, FALSE, <<"C", "o", "n", "n", "e", "c", "t", "i", "o", "n", " ", "r", "e", "f", "u", "s", "e", "d">>, NoCode)
  ELSE IF response.kind = "timeout"
  THEN Result(traversal, FALSE, FALSE, <<"C", "o", "n", "n", "e", "c", "t", "i", "o", "n", " ", "t", "i", "m", "e", "o", "u", "t">>, NoCode)
  ELSE IF response.kind = "ssl_error"
  THEN Result(traversal, FALSE, FALSE, <<"S", "S", "L", " ", "e", "r", "r", "o", "r", ":", " ">> \o response.message, NoCode)
  ELSE Result(traversal, FALSE, FALSE, <<"C", "o", "n", "n", "e", "c", "t", "i", "o", "n", " ", "e", "r", "r", "o", "r", ":", " ">> \o response.message, NoCode)

\* PayloadFuzzer._test_traversal: a timeout while reading is not an error,
\* the bytes received so far (possibly none) are the response
payload_test_traversal(traversal, pattern, response) ==
  IF response.kind \in {"response", "read_timeout"}
  THEN IF pattern # <<>> /\ response.body # <<>>
       THEN IF Contains(response.body, pattern)
            THEN Result(traversal, TRUE, FALSE, <<>>, NoCode)
            ELSE Result(traversal, FALSE, TRUE, <<>>, NoCode)
       ELSE IF response.body # <<>>
       THEN Result(traversal, TRUE, FALSE, <<>>, NoCode)
       ELSE Result(traversal, FALSE, FALSE, <<>>, NoCode)
  ELSE IF response.kind = "refused"
  THEN Result(traversal, FALSE, FALSE, <<"C", "o", "n", "n", "e", "c", "t", "i", "o", "n", " ", "r", "e", "f", "u", "s", "e", "d">>, NoCode)
  ELSE IF response.kind = "timeout"
  THEN Result(traversal, FALSE, FALSE, <<"C", "o", "n", "n", "e", "c", "t", "i", "o", "n", " ", "t", "i", "m", "e", "o", "u", "t">>, NoCode)
  ELSE IF response.kind = "ssl_error"
  THEN Result(traversal, FALSE, FALSE, <<"S", "S", "L", " ", "e", "r", "r", "o", "r", ":", " ">> \o response.message, NoCode)
  ELSE Result(traversal, FALSE, FALSE, <<"C", "o", "n", "n", "e", "c", "t", "i", "o", "n", " ", "e", "r", "r", "o", "r", ":", " ">> \o response.message, NoCode)

\* self._test_traversal of the fuzzer of the run
test_traversal(protocol, traversal, pattern, response) ==
  CASE protocol = "http" -> http_test_traversal(traversal, pattern, response)
    [] protocol = "http_url" -> http_url_test_traversal(traversal, pattern, response)
    [] protocol = "ftp" -> ftp_test_traversal(traversal, response)
    [] protocol = "tftp" -> tftp_test_traversal(traversal, response)
    [] OTHER -> payload_test_traversal(traversal, pattern, response)

\* the default of max_depth of find_exact_depth
DefaultMaxDepth == 16

\* the arguments of generate_and_fuzz that made the list of payloads: its
\* defaults with the depth of the default of the search, and a scan of depth
\* 6 for one file of one OS
DefaultScan ==
  [os_type |-> "generic", depth |-> DefaultMaxDepth, specific_file |-> <<>>,
   extension |-> <<>>]

ScanConfigs ==
  {DefaultScan,
   [os_type |-> "unix", depth |-> 6, specific_file |-> <<"/", "e", "t", "c", "/", "p", "a", "s", "s", "w", "d">>,
    extension |-> <<".", "t", "x", "t">>]}

\* what find_exact_depth can return to _run_bisection: None (0) or a depth
ExactDepths == {0, DefaultMaxDepth}

\* _run_bisection: the call bisection.find_exact_depth(tester), which leaves
\* every other argument to its default, and the depth it returned
run_bisection(vulnerable_traversal, d) ==
  [traversal |-> vulnerable_traversal,
   min_depth |-> 1, max_depth |-> DefaultMaxDepth,
   os_type |-> "generic", specific_file |-> <<>>, extension |-> <<>>,
   exact_depth |-> d]

\* the arguments of a run; FTP and TFTP take no pattern and fuzz_async of the
\* HTTP-URL fuzzer raises ValueError before the loop without one;
\* progress_callback is absent, returns, or may raise; the runs explored
\* with bisection are those of the second scan without delay and without
\* callback, the runs with a delay those with a callback that returns
DrvInputs ==
  {o \in [protocol : Protocols, pattern : Patterns,
          break_on_first : BOOLEAN, continue_on_error : BOOLEAN,
          progress_callback : {"none", "returns", "may_raise"},
          bisection : BOOLEAN, time_delay : {0, 1}, scan : ScanConfigs] :
     /\ o.protocol \in {"ftp", "tftp"} => o.pattern = <<>>
     /\ o.protocol = "http_url" => o.pattern # <<>>
     /\ o.bisection <=> o.scan # DefaultScan
     /\ o.bisection => o.time_delay = 0 /\ o.progress_callback = "none"
     /\ o.time_delay > 0 => o.progress_callback = "returns"}

DrvInit ==
  /\ dpc = "loop" /\ opts \in DrvInputs
  /\ total \in 1..MaxPayloads /\ i = 0 /\ sleeps = <<>>
  /\ answer = <<>> /\ result = <<>> /\ probed = <<>>
  /\ vulnerabilities = <<>> /\ false_positives = <<>> /\ errors = <<>>
  /\ calls = <<>> /\ bisections = <<>> /\ exit = "none"
  /\ genIdle /\ bisIdle /\ otherIdle

\* if time_delay > 0 and i > 0
NeedsDelay == opts.time_delay > 0 /\ i > 0

\* the sleep of time_delay seconds before every request but the first
Delay ==
  /\ dpc = "loop" /\ i < total /\ NeedsDelay
  /\ sleeps' = Append(sleeps, i + 1)
  /\ dpc' = "slept"
  /\ UNCHANGED <<opts, total, i, answer, result, probed,
                 vulnerabilities, false_positives, errors, calls, bisections, exit>>
  /\ UNCHANGED <<genVars, bisVars, otherVars>>

\* result = self._test_traversal(...): the request and the answer to it
Probe ==
  /\ \/ dpc = "loop" /\ i < total /\ ~NeedsDelay
     \/ dpc = "slept"
  /\ \E response \in Answers(opts.protocol) :
       /\ answer' = response
       /\ result' = test_traversal(opts.protocol, i + 1, opts.pattern, response)
       /\ probed' = Append(probed, test_traversal(opts.protocol, i + 1, opts.pattern, response))
  /\ dpc' = "probed"
  /\ UNCHANGED <<opts, sleeps, total, i, vulnerabilities, false_positives, errors,
                 calls, bisections, exit>>
  /\ UNCHANGED <<genVars, bisVars, otherVars>>

\* the test of the keyword without lower()
IsConnectionError_case_sensitive(error) == Contains(error, <<"c", "o", "n", "n", "e", "c", "t", "i", "o", "n">>)

\* 'connection' in result['error'].lower()
IsConnectionError(error) == Contains(Lower(error), <<"c", "o", "n", "n", "e", "c", "t", "i", "o", "n">>)

\* the loop body with the test of the error written as a separate if: a
\* vulnerable result that carries an error is appended to errors too
Classify_error_tested_separately ==
  /\ dpc = "probed"
  /\ IF result.vulnerable
     THEN /\ vulnerabilities' = Append(vulnerabilities, result)
          /\ \E d \in ExactDepths :
               bisections' = IF opts.bisection
                             THEN Append(bisections, run_bisection(result.traversal, d))
                             ELSE bisections
          /\ dpc' = IF opts.break_on_first THEN "done" ELSE "callback"
          /\ exit' = IF opts.break_on_first THEN "break_on_first" ELSE exit
          /\ errors' = IF result.error # <<>> THEN Append(errors, result) ELSE errors
          /\ UNCHANGED false_positives
     ELSE IF opts.protocol \in PatternProtocols /\ result.false_positive
     THEN /\ false_positives' = Append(false_positives, result)
          /\ dpc' = "callback"
          /\ UNCHANGED <<vulnerabilities, errors, bisections, exit>>
     ELSE IF result.error # <<>>
     THEN /\ errors' = Append(errors, result)
          /\ dpc' = IF ~opts.continue_on_error /\ IsConnectionError(result.error)
                    THEN "done" ELSE "callback"
          /\ exit' = IF ~opts.continue_on_error /\ IsConnectionError(result.error)
                     THEN "connection_error" ELSE exit
          /\ UNCHANGED <<vulnerabilities, false_positives, bisections>>
     ELSE /\ dpc' = "callback"
          /\ UNCHANGED <<vulnerabilities, false_positives, errors, bisections, exit>>
  /\ UNCHANGED <<opts, sleeps, total, i, answer, result, probed, calls>>
  /\ UNCHANGED <<genVars, bisVars, otherVars>>

\* the loop body without the break that follows a vulnerable result
Classify_no_break_on_first ==
  /\ dpc = "probed"
  /\ IF result.vulnerable
     THEN /\ vulnerabilities' = Append(vulnerabilities, result)
          /\ \E d \in ExactDepths :
               bisections' = IF opts.bisection
                             THEN Append(bisections, run_bisection(result.traversal, d))
                             ELSE bisections
          /\ dpc' = "callback"
          /\ UNCHANGED <<false_positives, errors, exit>>
     ELSE IF opts.protocol \in PatternProtocols /\ result.false_positive
     THEN /\ false_positives' = Append(false_positives, result)
          /\ dpc' = "callback"
          /\ UNCHANGED <<vulnerabilities, errors, bisections, exit>>
     ELSE IF result.error # <<>>
     THEN /\ errors' = Append(errors, result)
          /\ dpc' = IF ~opts.continue_on_error /\ IsConnectionError(result.error)
                    THEN "done" ELSE "callback"
          /\ exit' = IF ~opts.continue_on_error /\ IsConnectionError(result.error)
                     THEN "connection_error" ELSE exit
          /\ UNCHANGED <<vulnerabilities, false_positives, bisections>>
     ELSE /\ dpc' = "callback"
          /\ UNCHANGED <<vulnerabilities, false_positives, errors, bisections, exit>>
  /\ UNCHANGED <<opts, sleeps, total, i, answer, result, probed, calls>>
  /\ UNCHANGED <<genVars, bisVars, otherVars>>

\* the loop body with the break on a connection error placed before the
\* append: the result that stops the run is not recorded
Classify_break_before_append ==
  /\ dpc = "probed"
  /\ IF result.vulnerable
     THEN /\ vulnerabilities' = Append(vulnerabilities, result)
          /\ \E d \in ExactDepths :
               bisections' = IF opts.bisection
                             THEN Append(bisections, run_bisection(result.traversal, d))
                             ELSE bisections
          /\ dpc' = IF opts.break_on_first THEN "done" ELSE "callback"
          /\ exit' = IF opts.break_on_first THEN "break_on_first" ELSE exit
          /\ UNCHANGED <<false_positives, errors>>
     ELSE IF opts.protocol \in PatternProtocols /\ result.false_positive
     THEN /\ false_positives' = Append(false_positives, result)
          /\ dpc' = "callback"
          /\ UNCHANGED <<vulnerabilities, errors, bisections, exit>>
     ELSE IF result.error # <<>>
     THEN /\ errors' = IF ~opts.continue_on_error /\ IsConnectionError(result.error)
                       THEN errors ELSE Append(errors, result)
          /\ dpc' = IF ~opts.continue_on_error /\ IsConnectionError(result.error)
                    THEN "done" ELSE "callback"
          /\ exit' = IF ~opts.continue_on_error /\ IsConnectionError(result.error)
                     THEN "connection_error" ELSE exit
          /\ UNCHANGED <<vulnerabilities, false_positives, bisections>>
     ELSE /\ dpc' = "callback"
          /\ UNCHANGED <<vulnerabilities, false_positives, errors, bisections, exit>>
  /\ UNCHANGED <<opts, sleeps, total, i, answer, result, probed, calls>>
  /\ UNCHANGED <<genVars, bisVars, otherVars>>

\* the if / elif / elif on the flags of the result, with the two breaks
Classify ==
  /\ dpc = "probed"
  /\ IF result.vulnerable
     THEN /\ vulnerabilities' = Append(vulnerabilities, result)
          /\ \E d \in ExactDepths :
               bisections' = IF opts.bisection
                             THEN Append(bisections, run_bisection(result.traversal, d))
                             ELSE bisections
          /\ dpc' = IF opts.break_on_first THEN "done" ELSE "callback"
          /\ exit' = IF opts.break_on_first THEN "break_on_first" ELSE exit
          /\ UNCHANGED <<false_positives, errors>>
     ELSE IF opts.protocol \in PatternProtocols /\ result.false_positive
     THEN /\ false_positives' = Append(false_positives, result)
          /\ dpc' = "callback"
          /\ UNCHANGED <<vulnerabilities, errors, bisections, exit>>
     ELSE IF result.error # <<>>
     THEN /\ errors' = Append(errors, result)
          /\ dpc' = IF ~opts.continue_on_error /\ IsConnectionError(result.error)
                    THEN "done" ELSE "callback"
          /\ exit' = IF ~opts.continue_on_error /\ IsConnectionError(result.error)
                     THEN "connection_error" ELSE exit
          /\ UNCHANGED <<vulnerabilities, false_positives, bisections>>
     ELSE /\ dpc' = "callback"
          /\ UNCHANGED <<vulnerabilities, false_positives, errors, bisections, exit>>
  /\ UNCHANGED <<opts, sleeps, total, i, answer, result, probed, calls>>
  /\ UNCHANGED <<genVars, bisVars, otherVars>>

\* the dictionary of the except Exception handler of the loop
error_result(traversal, message) ==
  Result(traversal, FALSE, FALSE, message, NoCode)

\* the callback handed the index of enumerate, which counts from 0
Callback_index_from_zero ==
  /\ dpc = "callback"
  /\ calls' = IF opts.progress_callback = "none" THEN calls
              ELSE Append(calls, [current |-> i, total |-> total, traversal |-> i + 1])
  /\ i' = i + 1
  /\ dpc' = "loop"
  /\ UNCHANGED <<opts, sleeps, total, answer, result, probed,
                 vulnerabilities, false_positives, errors, bisections, exit>>
  /\ UNCHANGED <<genVars, bisVars, otherVars>>

\* progress_callback(i + 1, len(traversals), traversal) returns, and the
\* iteration ends
Callback ==
  /\ dpc = "callback"
  /\ calls' = IF opts.progress_callback = "none" THEN calls
              ELSE Append(calls, [current |-> i + 1, total |-> total, traversal |-> i + 1])
  /\ i' = i + 1
  /\ dpc' = "loop"
  /\ UNCHANGED <<opts, sleeps, total, answer, result, probed,
                 vulnerabilities, false_positives, errors, bisections, exit>>
  /\ UNCHANGED <<genVars, bisVars, otherVars>>

\* progress_callback raises: except Exception appends an error entry for
\* the payload and the loop goes on
CallbackRaises ==
  /\ dpc = "callback" /\ opts.progress_callback = "may_raise"
  /\ calls' = Append(calls, [current |-> i + 1, total |-> total, traversal |-> i + 1])
  /\ errors' = Append(errors, error_result(i + 1, <<"c", "a", "l", "l", "b", "a", "c", "k", " ", "f", "a", "i", "l", "e", "d">>))
  /\ i' = i + 1
  /\ dpc' = "loop"
  /\ UNCHANGED <<opts, sleeps, total, answer, result, probed,
                 vulnerabilities, false_positives, bisections, exit>>
  /\ UNCHANGED <<genVars, bisVars, otherVars>>

\* the interruption left uncaught: the call ends without its results
Cancel_results_lost ==
  /\ \/ dpc = "loop" /\ i < total
     \/ dpc = "slept"
     \/ dpc \in {"probed", "callback"} /\ opts.protocol \notin AsyncProtocols
  /\ exit' = (CASE dpc \in {"loop", "slept"} -> "cancelled_in_request"
                [] dpc = "probed" -> "cancelled_after_probe"
                [] OTHER -> "cancelled_after_append")
  /\ dpc' = "done"
  /\ vulnerabilities' = <<>> /\ false_positives' = <<>> /\ errors' = <<>>
  /\ UNCHANGED <<opts, sleeps, total, i, answer, result, probed, calls, bisections>>
  /\ UNCHANGED <<genVars, bisVars, otherVars>>

\* asyncio.CancelledError arrives at an await (the delay and the request);
\* KeyboardInterrupt arrives anywhere in the loop body of the other fuzzers
Cancel ==
  /\ \/ dpc = "loop" /\ i < total
     \/ dpc = "slept"
     \/ dpc \in {"probed", "callback"} /\ opts.protocol \notin AsyncProtocols
  /\ exit' = (CASE dpc \in {"loop", "slept"} -> "cancelled_in_request"
                [] dpc = "probed" -> "cancelled_after_probe"
                [] OTHER -> "cancelled_after_append")
  /\ dpc' = "done"
  /\ UNCHANGED <<opts, sleeps, total, i, answer, result, probed,
                 vulnerabilities, false_positives, errors, calls, bisections>>
  /\ UNCHANGED <<genVars, bisVars, otherVars>>

\* the list is exhausted
Finish ==
  /\ dpc = "loop" /\ i = total
  /\ dpc' = "done" /\ exit' = "exhausted"
  /\ UNCHANGED <<opts, sleeps, total, i, answer, result, probed,
                 vulnerabilities, false_positives, errors, calls, bisections>>
  /\ UNCHANGED <<genVars, bisVars, otherVars>>

DrvNext == Delay \/ Probe \/ Classify \/ Callback \/ CallbackRaises \/ Cancel \/ Finish

SpecDrv == DrvInit /\ [][DrvNext]_vars

(***************************************************************************)
(* Properties of the probes and of the loop                                *)
(***************************************************************************)
\* how many of the three flags a dictionary has set
FlagsSet(r) ==
  (IF r.vulnerable THEN 1 ELSE 0) + (IF r.false_positive THEN 1 ELSE 0)
  + (IF r.error # <<>> THEN 1 ELSE 0)

\* the outcomes the probes leave without any flag: an HTTP response whose
\* status is not 200, an empty response to a raw payload, the FTP refusal
\* 550 followed by a clean quit, a TFTP ERROR packet whose code is not 2
UnflaggedOutcome ==
  \/ opts.protocol = "http" /\ answer.kind = "response" /\ answer.status # HTTP_OK
  \/ /\ opts.protocol = "payload" /\ answer.kind \in {"response", "read_timeout"}
     /\ answer.body = <<>>
  \/ /\ opts.protocol = "ftp" /\ answer.kind = "retr_error_perm"
     /\ Contains(answer.message, <<"5", "5", "0">>) /\ answer.closing = "ok"
  \/ /\ opts.protocol = "tftp" /\ answer.kind = "packet"
     /\ parse_tftp_response(answer.body).opcode = TFTP_ERROR
     /\ parse_tftp_response(answer.body).error_code # 2

\* the outcomes the probes flag twice, vulnerable and error: a TFTP ERROR
\* packet with code 2, an FTP retrieval whose quit fails
DoublyFlaggedOutcome ==
  \/ /\ opts.protocol = "tftp" /\ answer.kind = "packet"
     /\ parse_tftp_response(answer.body).opcode = TFTP_ERROR
     /\ parse_tftp_response(answer.body).error_code = 2
  \/ opts.protocol = "ftp" /\ answer.kind = "retrieved" /\ answer.closing # "ok"

\* C4: every probe outcome of every protocol sets exactly one of the flags
\* vulnerable, false_positive, error.
C4_ExactlyOneFlag == dpc = "probed" => FlagsSet(result) = 1

\* C4 amended: a probe outcome sets exactly one flag, but for the unflagged
\* outcomes, which set none, and the doubly flagged outcomes, which set
\* vulnerable and error; false_positive is never set with another flag.
C4_OneFlagButListed ==
  dpc = "probed" =>
    /\ UnflaggedOutcome => FlagsSet(result) = 0
    /\ DoublyFlaggedOutcome =>
         result.vulnerable /\ result.error # <<>> /\ ~result.false_positive
    /\ ~(UnflaggedOutcome \/ DoublyFlaggedOutcome) => FlagsSet(result) = 1

\* an empty response to a raw payload was probed: no flag
C4_Witness ==
  /\ dpc = "probed" /\ opts.protocol = "payload"
  /\ answer.kind = "response" /\ answer.body = <<>>
  /\ FlagsSet(result) = 0

\* the entries of a list for one payload
EntriesFor(bucket, traversal) ==
  Cardinality({n \in DOMAIN bucket : bucket[n].traversal = traversal})

\* the payloads _test_traversal returned for
ProbedPayloads == {probed[n].traversal : n \in DOMAIN probed}

\* the dictionary _test_traversal returned for a payload
ProbeOf(traversal) == probed[CHOOSE n \in DOMAIN probed : probed[n].traversal = traversal]

\* the request ended without an answer from the server
GotNoResponse(r) ==
  r.error \in {<<"R", "e", "q", "u", "e", "s", "t", " ", "t", "i", "m", "e", "o", "u", "t">>, <<"C", "o", "n", "n", "e", "c", "t", "i", "o", "n", " ", "t", "i", "m", "e", "o", "u", "t">>,
               <<"R", "e", "q", "u", "e", "s", "t", " ", "t", "i", "m", "e", "o", "u", "t", " ", "-", " ", "n", "o", " ", "r", "e", "s", "p", "o", "n", "s", "e", " ", "f", "r", "o", "m", " ", "T", "F", "T", "P", " ", "s", "e", "r", "v", "e", "r">>}

Unclassified(t) == exit = "cancelled_after_probe" /\ t = i + 1

\* the progress callback raised for the payload
CallbackRaisedFor(t) ==
  \E n \in DOMAIN errors : errors[n] = error_result(t, <<"c", "a", "l", "l", "b", "a", "c", "k", " ", "f", "a", "i", "l", "e", "d">>)

C6_VulnerableOnly200 ==
  opts.protocol \in {"http", "http_url"} =>
    /\ (dpc = "probed" /\ result.vulnerable) => answer.status = HTTP_OK
    /\ \A n \in DOMAIN vulnerabilities : vulnerabilities[n].code = HTTP_OK

\* C6 amended: an HTTP probe classifies a payload vulnerable only if the
\* status is 200 and no other status reaches its vulnerabilities list; an
\* HTTP-URL probe classifies a payload vulnerable exactly when the body
\* contains the pattern, whatever the status.
C6_HttpOnly200UrlAnyStatus ==
  /\ opts.protocol = "http" =>
       /\ (dpc = "probed" /\ result.vulnerable) => answer.status = HTTP_OK
       /\ \A n \in DOMAIN vulnerabilities : vulnerabilities[n].code = HTTP_OK
  /\ (opts.protocol = "http_url" /\ dpc = "probed" /\ answer.kind = "response") =>
       (result.vulnerable <=> Contains(answer.body, opts.pattern))

\* an HTTP response with another status and the pattern in its body was
\* probed and is not vulnerable
C6_Witness ==
  /\ opts.protocol = "http" /\ dpc = "probed"
  /\ answer.kind = "response" /\ answer.status # HTTP_OK
  /\ opts.pattern # <<>> /\ Contains(answer.body, opts.pattern)
  /\ ~result.vulnerable

\* C7: the TFTP probe classifies a payload vulnerable only when the answer
\* is a DATA packet; an ERROR packet with code 2 is not vulnerable (the
\* fuzzer has no switch to opt in to that rule).
C7_VulnerableOnlyData ==
  (opts.protocol = "tftp" /\ dpc = "probed" /\ result.vulnerable) =>
    /\ answer.kind = "packet"
    /\ parse_tftp_response(answer.body).opcode = TFTP_DATA

\* C7 amended: the TFTP probe classifies a payload vulnerable exactly when
\* the answer is a DATA packet or an ERROR packet with code 2.
C7_VulnerableDataOrCode2 ==
  (opts.protocol = "tftp" /\ dpc = "probed") =>
    (result.vulnerable <=>
       /\ answer.kind = "packet"
       /\ \/ parse_tftp_response(answer.body).opcode = TFTP_DATA
          \/ /\ parse_tftp_response(answer.body).opcode = TFTP_ERROR
             /\ parse_tftp_response(answer.body).error_code = 2)

\* an ERROR packet with code 2 was probed and is vulnerable
C7_Witness ==
  /\ opts.protocol = "tftp" /\ dpc = "probed"
  /\ answer.kind = "packet" /\ answer.body = <<0, 5, 0, 2>>
  /\ result.vulnerable

\* the positions in probed of the vulnerable dictionaries
VulnerableProbes == {n \in DOMAIN probed : probed[n].vulnerable}

\* C15: with break_on_first no payload is probed after a vulnerable one, the
\* vulnerabilities list has at most one entry, and the entry is the first
\* vulnerable payload of the list of payloads.
C15_StopsAtFirstVulnerable ==
  opts.break_on_first =>
    /\ \A n \in VulnerableProbes : n = Len(probed)
    /\ Len(vulnerabilities) <= 1
    /\ \A n \in DOMAIN vulnerabilities :
         /\ vulnerabilities[n] = probed[Len(probed)]
         /\ \A k \in VulnerableProbes :
              vulnerabilities[n].traversal <= probed[k].traversal
         /\ dpc = "done" /\ exit = "break_on_first"

\* a run with break_on_first ended at a vulnerable payload before the list
\* of payloads was exhausted
C15_Witness ==
  /\ opts.break_on_first /\ dpc = "done" /\ exit = "break_on_first"
  /\ Len(vulnerabilities) = 1 /\ vulnerabilities[1].vulnerable
  /\ Len(probed) < total

\* the positions in probed of the dictionaries whose error has the keyword
ConnectionErrorProbes ==
  {n \in DOMAIN probed : Contains(Lower(probed[n].error), <<"c", "o", "n", "n", "e", "c", "t", "i", "o", "n">>)}

\* C16: without continue_on_error no payload is probed after one whose probe
\* error contains "connection", and once the loop has looked at that result
\* the run is over and the payload is the last entry of errors.
C16_StopsAtConnectionError ==
  ~opts.continue_on_error =>
    \A n \in ConnectionErrorProbes :
      /\ n = Len(probed)
      /\ (dpc # "probed" /\ exit # "cancelled_after_probe") =>
           /\ dpc = "done"
           /\ errors # <<>> /\ errors[Len(errors)] = probed[n]

\* C16 amended: the same for a payload that is not vulnerable; a vulnerable
\* payload whose probe error contains "connection" is appended to
\* vulnerabilities, not to errors, and does not end the run.
C16_StopsAtConnectionErrorUnlessVulnerable ==
  ~opts.continue_on_error =>
    \A n \in ConnectionErrorProbes :
      /\ ~probed[n].vulnerable =>
           /\ n = Len(probed)
           /\ (dpc # "probed" /\ exit # "cancelled_after_probe") =>
                /\ dpc = "done" /\ exit = "connection_error"
                /\ errors # <<>> /\ errors[Len(errors)] = probed[n]
      /\ (probed[n].vulnerable /\ ~(n = Len(probed) /\ dpc = "probed")
            /\ ~(n = Len(probed) /\ exit = "cancelled_after_probe")) =>
           /\ EntriesFor(vulnerabilities, probed[n].traversal) = 1
           /\ \A k \in DOMAIN errors : errors[k] # probed[n]
           /\ n = Len(probed) => exit # "connection_error"

\* a run without continue_on_error ended at a connection error before the
\* list of payloads was exhausted
C16_Witness ==
  /\ ~opts.continue_on_error /\ dpc = "done" /\ exit = "connection_error"
  /\ Len(probed) < total
  /\ Len(probed) \in ConnectionErrorProbes
  /\ errors[Len(errors)] = probed[Len(probed)]

\* the calls of progress_callback for one payload
CallsFor(t) == Cardinality({n \in DOMAIN calls : calls[n].traversal = t})

\* the entries of the three lists for one payload
Appended(t) ==
  EntriesFor(vulnerabilities, t) + EntriesFor(false_positives, t) + EntriesFor(errors, t)

\* C17: every probed payload was preceded by the delay, and at the end of a
\* run with a progress callback the callback has been called exactly once
\* for every probed payload, in the order of the list, with (index, total,
\* payload), after the append of a flagged payload to its list.
C17_DelayProbeAppendCallback ==
  /\ opts.time_delay > 0 => \A t \in ProbedPayloads : t \in Elements(sleeps)
  /\ opts.progress_callback # "none" =>
       /\ \A n \in DOMAIN calls :
            /\ calls[n] = [current |-> n, total |-> total, traversal |-> n]
            /\ n \in ProbedPayloads
            /\ FlagsSet(ProbeOf(n)) > 0 => Appended(n) >= 1
       /\ dpc = "done" => \A t \in ProbedPayloads : CallsFor(t) = 1

\* C17 amended: the delay precedes every probed payload but the first; the
\* callback has been called exactly once, in the order of the list and after
\* the append, for every payload after which the loop went on, and not for
\* the payload at which the run stopped or was interrupted.
C17_CallbackUnlessStopped ==
  /\ \A t \in ProbedPayloads :
       t \in Elements(sleeps) <=> (opts.time_delay > 0 /\ t > 1)
  /\ Len(sleeps) <= Len(probed) + 1
  /\ opts.progress_callback = "none" => calls = <<>>
  /\ opts.progress_callback # "none" =>
       /\ Len(calls) = i
       /\ \A n \in DOMAIN calls :
            /\ calls[n] = [current |-> n, total |-> total, traversal |-> n]
            /\ n \in ProbedPayloads
            /\ FlagsSet(ProbeOf(n)) > 0 => Appended(n) >= 1
       /\ \A t \in ProbedPayloads : CallsFor(t) = (IF t <= i THEN 1 ELSE 0)
  /\ Len(probed) \in {i, i + 1}
  /\ (dpc = "done" /\ Len(probed) = i + 1) =>
       exit \in {"break_on_first", "connection_error",
                 "cancelled_after_probe", "cancelled_after_append"}

\* a run with a delay and a callback stopped at its second payload: one
\* sleep, two probes, one call
C17_Witness ==
  /\ dpc = "done" /\ exit = "break_on_first"
  /\ opts.time_delay > 0 /\ opts.progress_callback = "returns"
  /\ Len(probed) = 2 /\ sleeps = <<2>>
  /\ calls = <<[current |-> 1, total |-> total, traversal |-> 1]>>

\* C18: the bisection hook calls the search with the interval from 1 to the
\* depth of the scan, and with the OS, the target file and the extension of
\* the scan.
C18_HookUsesScanConfig ==
  opts.bisection =>
    \A n \in DOMAIN bisections :
      /\ bisections[n].min_depth = 1
      /\ bisections[n].max_depth = opts.scan.depth
      /\ bisections[n].os_type = opts.scan.os_type
      /\ bisections[n].specific_file = opts.scan.specific_file
      /\ bisections[n].extension = opts.scan.extension

\* C19: after the bisection hook ran for a vulnerable payload, the record of
\* the payload in vulnerabilities holds the depth the hook found.
C19_DepthOnRecord ==
  \A n \in DOMAIN bisections :
    \E k \in DOMAIN vulnerabilities :
      /\ vulnerabilities[k].traversal = bisections[n].traversal
      /\ "exact_depth" \in DOMAIN vulnerabilities[k]
      /\ vulnerabilities[k].exact_depth = bisections[n].exact_depth

\* the run was ended by a cancellation
Cancelled ==
  dpc = "done" /\ exit \in {"cancelled_in_request", "cancelled_after_probe",
                             "cancelled_after_append"}

\* the payloads whose result the loop had looked at when the run ended
Classified == {t \in ProbedPayloads : ~Unclassified(t)}

SigInputs ==
  [protocol : Protocols, time_delay : {0, 1}, bisection : BOOLEAN,
   break_on_first : BOOLEAN, continue_on_error : BOOLEAN]

\* the dictionaries of _test_traversal as the loop tells them apart:
\* vulnerable, an error with the keyword, an error without it, no flag
SigResults(traversal) ==
  {Result(traversal, TRUE, FALSE, <<>>, NoCode),
   Result(traversal, FALSE, FALSE, <<"C", "o", "n", "n", "e", "c", "t", "i", "o", "n", " ", "r", "e", "f", "u", "s", "e", "d">>, NoCode),
   Result(traversal, FALSE, FALSE, <<"R", "e", "q", "u", "e", "s", "t", " ", "t", "i", "m", "e", "o", "u", "t">>, NoCode),
   Result(traversal, FALSE, FALSE, <<>>, NoCode)}

\* the variables a run leaves alone when only its blocking points are
\* followed
sigRest ==
  <<genVars, bpc, tester, bargs, exact_depth, asked, found, sleeps, answer,
    probed, vulnerabilities, false_positives, errors, calls, bisections,
    pktVars, cliVars, moreVars>>

SigInit ==
  /\ dpc = "loop" /\ opts \in SigInputs
  /\ total \in 1..MaxPayloads /\ i = 0 /\ result = <<>> /\ exit = "none"
  /\ left = 0 /\ right = 0
  /\ signal = "none" /\ since = <<>>
  /\ genIdle /\ pktIdle /\ cliIdle /\ moreIdle
  /\ bpc = "idle" /\ tester = <<>> /\ bargs = <<>>
  /\ exact_depth = 0 /\ asked = <<>> /\ found = 0
  /\ sleeps = <<>> /\ answer = <<>> /\ probed = <<>>
  /\ vulnerabilities = <<>> /\ false_positives = <<>> /\ errors = <<>>
  /\ calls = <<>> /\ bisections = <<>>

\* a blocking operation begins: it is noted when a cancellation was asked for
\* before
Begun(operation) ==
  IF signal \in {"pending", "swallowed"} THEN Append(since, operation) ELSE since

\* task.cancel() on a task that runs synchronous code marks the task; the
\* next await of the task raises CancelledError
CancelledAtAwait == opts.protocol \in AsyncProtocols /\ signal = "pending"

\* the user interrupts the run.  KeyboardInterrupt is raised where a
\* synchronous fuzzer stands: the loop catches it and breaks, but inside the
\* quit of the finally block of the FTP probe the bare except catches it.
\* task.cancel() raises CancelledError in fuzz_async at the await where it
\* is suspended, and otherwise stays pending.
Signal ==
  /\ signal = "none"
  /\ dpc \in {"sleeping", "request", "closing", "probed", "search", "callback"}
  /\ IF opts.protocol \in AsyncProtocols
     THEN IF dpc \in {"sleeping", "request"}
          THEN signal' = "raised" /\ dpc' = "done" /\ exit' = "cancelled"
          ELSE signal' = "pending" /\ UNCHANGED <<dpc, exit>>
     ELSE IF dpc = "closing"
          THEN signal' = "swallowed" /\ dpc' = "probed" /\ UNCHANGED exit
          ELSE signal' = "raised" /\ dpc' = "done" /\ exit' = "cancelled"
  /\ UNCHANGED <<opts, total, i, result, left, right, since, sigRest>>

\* if time_delay > 0 and i > 0: the sleep begins
BeginDelay ==
  /\ dpc = "loop" /\ i < total /\ NeedsDelay
  /\ IF CancelledAtAwait
     THEN signal' = "raised" /\ dpc' = "done" /\ exit' = "cancelled" /\ UNCHANGED since
     ELSE dpc' = "sleeping" /\ since' = Begun("delay") /\ UNCHANGED <<signal, exit>>
  /\ UNCHANGED <<opts, total, i, result, left, right, sigRest>>

\* the request of _test_traversal begins
BeginRequest ==
  /\ \/ dpc = "loop" /\ i < total /\ ~NeedsDelay
     \/ dpc = "sleeping"
  /\ IF CancelledAtAwait
     THEN signal' = "raised" /\ dpc' = "done" /\ exit' = "cancelled" /\ UNCHANGED since
     ELSE dpc' = "request" /\ since' = Begun("probe") /\ UNCHANGED <<signal, exit>>
  /\ UNCHANGED <<opts, total, i, result, left, right, sigRest>>

\* the request ends, by an answer or by its timeout; the FTP probe goes on
\* to the quit of its finally block
EndRequest ==
  /\ dpc = "request"
  /\ result' \in SigResults(i + 1)
  /\ dpc' = IF opts.protocol = "ftp" THEN "closing" ELSE "probed"
  /\ UNCHANGED <<opts, total, i, exit, left, right, signal, since, sigRest>>

\* finally: ftp.quit() returns or fails, and the probe returns
Quit ==
  /\ dpc = "closing"
  /\ dpc' = "probed"
  /\ UNCHANGED <<opts, total, i, result, exit, left, right, signal, since, sigRest>>

\* the if / elif on the flags of the result, up to the call of the hook
SigClassify ==
  /\ dpc = "probed"
  /\ IF result.vulnerable /\ opts.bisection
     THEN dpc' = "search" /\ left' = 1 /\ right' = DefaultMaxDepth /\ UNCHANGED exit
     ELSE IF result.vulnerable /\ opts.break_on_first
     THEN dpc' = "done" /\ exit' = "break_on_first" /\ UNCHANGED <<left, right>>
     ELSE IF /\ ~result.vulnerable /\ result.error # <<>>
             /\ ~opts.continue_on_error /\ IsConnectionError(result.error)
     THEN dpc' = "done" /\ exit' = "connection_error" /\ UNCHANGED <<left, right>>
     ELSE dpc' = "callback" /\ UNCHANGED <<exit, left, right>>
  /\ UNCHANGED <<opts, total, i, result, signal, since, sigRest>>

\* one iteration of the while loop of find_exact_depth, called by the hook
\* without an await: the tester is called for the payloads of depth mid
SearchStep ==
  /\ dpc = "search" /\ left <= right
  /\ since' = Begun("tester_call")
  /\ \/ right' = midpoint(left, right) - 1 /\ left' = left
     \/ left' = midpoint(left, right) + 1 /\ right' = right
  /\ UNCHANGED <<dpc, opts, total, i, result, exit, signal, sigRest>>

\* find_exact_depth returns, the hook returns; if break_on_first: break
SearchEnd ==
  /\ dpc = "search" /\ left > right
  /\ dpc' = IF opts.break_on_first THEN "done" ELSE "callback"
  /\ exit' = IF opts.break_on_first THEN "break_on_first" ELSE exit
  /\ UNCHANGED <<opts, total, i, result, left, right, signal, since, sigRest>>

\* the progress callback or the progress dot, and the end of the iteration
SigCallback ==
  /\ dpc = "callback"
  /\ i' = i + 1 /\ dpc' = "loop"
  /\ UNCHANGED <<opts, total, result, exit, left, right, signal, since, sigRest>>

\* the list is exhausted
SigFinish ==
  /\ dpc = "loop" /\ i = total
  /\ dpc' = "done" /\ exit' = "exhausted"
  /\ UNCHANGED <<opts, total, i, result, left, right, signal, since, sigRest>>

SigNext ==
  \/ Signal \/ BeginDelay \/ BeginRequest \/ EndRequest \/ Quit \/ SigClassify
  \/ SearchStep \/ SearchEnd \/ SigCallback \/ SigFinish

SpecSig == SigInit /\ [][SigNext]_vars

\* C21: after a cancellation signal the run starts no new probe and waits
\* for no delay, no remaining payload and no bisection search in progress:
\* it begins no blocking operation after the signal, so it returns within
\* the timeout of the request that was in flight.
C21_NothingBegunAfterSignal == since = <<>>

(***************************************************************************)
(* Failures of a request and the errors list                               *)
(***************************************************************************)
\* the request of the current payload failed: the connection was refused or
\* reset, a timeout, a TLS failure, or an error of the protocol raised by
\* the client library, the QUIT of the FTP probe included
FailedRequest ==
  \/ answer.kind \in {"client_error", "timeout", "exception", "refused",
                      "error_temp", "error_perm", "ssl_error", "read_timeout"}
  \/ opts.protocol \in {"ftp", "tftp"} /\ answer.closing # "ok"

\* the loop has looked at the result of the current payload
JustClassified ==
  \/ dpc = "callback"
  \/ dpc = "done" /\ exit \in {"break_on_first", "connection_error", "cancelled_after_append"}

\* the failure came after the answer that makes the payload vulnerable: the
\* FTP file was retrieved and the QUIT that follows failed, or the first
\* TFTP block arrived and the read of the next one timed out
FailedAfterRetrieval ==
  \/ opts.protocol = "ftp" /\ answer.kind = "retrieved" /\ answer.closing # "ok"
  \/ opts.protocol = "tftp" /\ answer.kind = "packet" /\ answer.closing # "ok"

\* the read of the answer to a raw payload timed out
ReadTimedOut == opts.protocol = "payload" /\ answer.kind = "read_timeout"

\* the ways a run ends: all of them return the results dictionary
ReturnedResults ==
  dpc = "done" =>
    exit \in {"exhausted", "break_on_first", "connection_error",
              "cancelled_in_request", "cancelled_after_probe", "cancelled_after_append"}

\* C22 as stated: every failure of the request of a payload is recorded in
\* errors for that payload, and the run ends by returning its results.
C22_EveryFailureInErrors ==
  /\ ReturnedResults
  /\ (JustClassified /\ FailedRequest) => EntriesFor(errors, i + 1) = 1

\* C22 amended: the same, but for a failure that comes after the file was
\* retrieved (a failed FTP QUIT, a timed-out read of a further TFTP block),
\* which leaves the payload in vulnerabilities and not in errors, and for a
\* timed-out read of the answer to a raw payload, which is taken as the end
\* of the response and leaves no error.
C22_FailureInErrorsButQuitAndRead ==
  /\ ReturnedResults
  /\ (JustClassified /\ FailedRequest) =>
       IF FailedAfterRetrieval
       THEN /\ EntriesFor(errors, i + 1) = 0
            /\ EntriesFor(vulnerabilities, i + 1) = 1
       ELSE IF ReadTimedOut
       THEN EntriesFor(errors, i + 1) = 0 /\ result.error = <<>>
       ELSE EntriesFor(errors, i + 1) = 1 /\ ~result.vulnerable
  /\ dpc = "done" =>
       \A n \in DOMAIN probed :
         (/\ probed[n].error # <<>> /\ ~probed[n].vulnerable
          /\ ~Unclassified(probed[n].traversal)) =>
           \E e \in DOMAIN errors : errors[e] = probed[n]

\* a run stopped by a refused connection, which is its last entry of errors
C22_Witness ==
  /\ dpc = "done" /\ exit = "connection_error"
  /\ answer.kind = "refused"
  /\ errors # <<>> /\ errors[Len(errors)].traversal = i + 1

(***************************************************************************)
(* The TFTP read request                                                   *)
(***************************************************************************)
MaxName == 3

\* the characters of the file names explored: ASCII characters, and two
\* characters outside ASCII named by their code points
NameChars == {".", "/", "e", "U+00E9", "U+20AC"}

\* the UTF-8 bytes of one character
Utf8Char(c) ==
  CASE c = "." -> <<46>>
    [] c = "/" -> <<47>>
    [] c = "c" -> <<99>>
    [] c = "e" -> <<101>>
    [] c = "o" -> <<111>>
    [] c = "t" -> <<116>>
    [] c = "U+00E9" -> <<195, 169>>
    [] c = "U+20AC" -> <<226, 130, 172>>

\* str.encode('utf-8')
encode_utf8(s) == Flat([n \in 1..Len(s) |-> Utf8Char(s[n])])

\* the bytes literal written b'\\0' in the source: a backslash and the digit 0
Terminator == <<92, 48>>

\* struct.pack('!H', n) for n < 65536
PackShort(n) == <<n \div 256, n % 256>>

TFTP_RRQ == 1

\* TFTPFuzzer._create_tftp_request with the default mode
create_tftp_request(name) ==
  PackShort(TFTP_RRQ) \o encode_utf8(name) \o Terminator
    \o encode_utf8(<<"o", "c", "t", "e", "t">>) \o Terminator

\* the strings of at most n characters
RECURSIVE Names(_)
Names(n) ==
  IF n = 0 THEN {<<>>}
  ELSE Names(n - 1) \cup {Append(s, c) : s \in {t \in Names(n - 1) : Len(t) = n - 1}, c \in NameChars}

PktInit ==
  /\ tpc = "call" /\ filename \in Names(MaxName) /\ request_packet = <<>>
  /\ genIdle /\ bisIdle /\ drvIdle /\ sigIdle /\ cliIdle /\ moreIdle

\* request_packet = self._create_tftp_request(traversal)
CreateRequest ==
  /\ tpc = "call"
  /\ request_packet' = create_tftp_request(filename)
  /\ tpc' = "returned"
  /\ UNCHANGED <<filename, genVars, bisVars, drvVars, sigVars, cliVars, moreVars>>

PktNext == CreateRequest

SpecPkt == PktInit /\ [][PktNext]_vars

\* C23: the read request built for a payload is exactly the bytes 0x00 0x01,
\* the UTF-8 bytes of the payload, one 0x00 byte, the ASCII bytes of
\* "octet", one 0x00 byte.
C23_RequestLayout ==
  tpc = "returned" =>
    request_packet =
      <<0, 1>> \o encode_utf8(filename) \o <<0>> \o <<111, 99, 116, 101, 116>> \o <<0>>

(***************************************************************************)
(* The exit code of the command-line process                               *)
(***************************************************************************)
ExitSuccess == 0
ExitError == 1
ExitInterrupted == 130

\* the commands explored: main with each module, with options that pass or
\* fail the validation, and generate
CliInputs ==
  [command : {"main"}, module : Protocols \cup {"stdout"}, valid : BOOLEAN,
   continue_on_error : BOOLEAN]
  \cup {[command |-> "generate", module |-> "stdout", valid |-> TRUE,
         continue_on_error |-> FALSE]}

CliInit ==
  /\ cmd \in CliInputs
  /\ cpc = IF cmd.command = "main" THEN "validate" ELSE "generate"
  /\ events = {} /\ exit_code = NoExit
  /\ genIdle /\ bisIdle /\ drvIdle /\ sigIdle /\ pktIdle /\ moreIdle

\* the process ends with an exit code
Exit(status) == cpc' = "exit" /\ exit_code' = status

\* the first try block of main: the validation of the options
Validate ==
  /\ cpc = "validate"
  /\ IF cmd.valid
     THEN /\ cpc' = IF cmd.module = "stdout" THEN "generate" ELSE "build"
          /\ UNCHANGED <<events, exit_code>>
     ELSE events' = events \cup {"invalid_config"} /\ Exit(ExitError)
  /\ UNCHANGED <<cmd, genVars, bisVars, drvVars, sigVars, pktVars, moreVars>>

\* generate_traversal_list, called by handle_stdout_module and by the
\* generate command: it returns, or raises (an output file that cannot be
\* written), which either command ends with 1
GenerateList ==
  /\ cpc = "generate"
  /\ \/ Exit(ExitSuccess) /\ UNCHANGED events
     \/ events' = events \cup {"error"} /\ Exit(ExitError)
  /\ UNCHANGED <<cmd, genVars, bisVars, drvVars, sigVars, pktVars, moreVars>>

\* an exception out of run_*_scan or of the report: raise typer.Exit(1)
\* unless continue_on_error
ScanError(next) ==
  IF cmd.continue_on_error
  THEN cpc' = next /\ UNCHANGED <<events, exit_code>>
  ELSE events' = events \cup {"error"} /\ Exit(ExitError)

\* generate_and_fuzz up to the loop: the fuzzer is made and the payloads
\* are generated
Build ==
  /\ cpc = "build"
  /\ \/ cpc' = "fuzz" /\ UNCHANGED <<events, exit_code>>
     \/ ScanError("report")
  /\ UNCHANGED <<cmd, genVars, bisVars, drvVars, sigVars, pktVars, moreVars>>

\* the loop of fuzz / fuzz_async returns the results, with or without
\* vulnerabilities, or raises (HTTPUrlFuzzer without a pattern)
Fuzz ==
  /\ cpc = "fuzz"
  /\ \/ cpc' = "report" /\ UNCHANGED <<events, exit_code>>
     \/ cmd.module = "http_url" /\ ScanError("report")
  /\ UNCHANGED <<cmd, genVars, bisVars, drvVars, sigVars, pktVars, moreVars>>

\* reporter.generate_report and the summary
Report ==
  /\ cpc = "report"
  /\ \/ Exit(ExitSuccess) /\ UNCHANGED events
     \/ IF cmd.continue_on_error
        THEN Exit(ExitSuccess) /\ UNCHANGED events
        ELSE events' = events \cup {"error"} /\ Exit(ExitError)
  /\ UNCHANGED <<cmd, genVars, bisVars, drvVars, sigVars, pktVars, moreVars>>

\* the user interrupts the process.  The second try block of main turns
\* KeyboardInterrupt into typer.Exit(130); the first try block and the
\* generate command have no handler, and the command runner ends an
\* unhandled KeyboardInterrupt with "Aborted!" and 1; the loop of a fuzzer
\* catches the interruption itself, breaks and returns its results.  Under
\* asyncio.run the interruption cancels the task, which the loop of
\* fuzz_async catches at its next await, or, with an interpreter whose
\* asyncio.run does not handle the signal, is raised through asyncio.run.
Interrupt ==
  /\ cpc \in {"validate", "generate", "build", "fuzz", "report"}
  /\ "interrupt" \notin events
  /\ events' = events \cup {"interrupt"}
  /\ CASE cpc = "validate" -> Exit(ExitError)
       [] cpc = "generate" ->
            Exit(IF cmd.command = "main" THEN ExitInterrupted ELSE ExitError)
       [] cpc \in {"build", "fuzz"} /\ cmd.module \in AsyncProtocols ->
            \/ cpc' = "report" /\ UNCHANGED exit_code
            \/ Exit(ExitInterrupted)
       [] cpc = "build" /\ cmd.module \notin AsyncProtocols -> Exit(ExitInterrupted)
       [] cpc = "fuzz" /\ cmd.module \notin AsyncProtocols ->
            cpc' = "report" /\ UNCHANGED exit_code
       [] OTHER -> Exit(ExitInterrupted)
  /\ UNCHANGED <<cmd, genVars, bisVars, drvVars, sigVars, pktVars, moreVars>>

CliNext == Validate \/ GenerateList \/ Build \/ Fuzz \/ Report \/ Interrupt

SpecCli == CliInit /\ [][CliNext]_vars

\* C24: the process exits with 0 when a scan or a generation completes,
\* with 1 on a configuration error or a fatal error, and with 130 whenever
\* the user cancels the run.
C24_ExitCodes ==
  cpc = "exit" =>
    exit_code = IF "interrupt" \in events THEN ExitInterrupted
           ELSE IF events # {} THEN ExitError ELSE ExitSuccess

(***************************************************************************)
(* The generator at two depths                                             *)
(***************************************************************************)
\* what generate_traversals returns for the arguments a with depth + 1 in
\* the place of depth, for the methods simple and url_encoding
AtNextDepth(a) ==
  Strings(IF a.detection_method = "simple"
          THEN generate_simple_traversals(a.os_type, a.depth + 1, a.specific_file,
                                          a.extra_files, a.extension, a.bisection_depth)
          ELSE generate_url_encoding_traversals(a.os_type, a.depth + 1, a.specific_file,
                                                a.extra_files, a.extension, a.bisection_depth))

\* C25: for the methods simple and url_encoding, without bisection_depth
\* and with the other arguments fixed, every payload generated for depth d
\* is also generated for depth d + 1.
C25_MonotoneInDepth ==
  (/\ gpc = "returned"
   /\ args.detection_method \in {"simple", "url_encoding"}
   /\ args.bisection_depth = 0) =>
    StringSet(Strings(traversals)) \subseteq StringSet(AtNextDepth(args))

\* a call of the method url_encoding for depth 2, whose payloads are fewer
\* than those of depth 3
C25_Witness ==
  /\ gpc = "returned"
  /\ args.detection_method = "url_encoding"
  /\ args.bisection_depth = 0 /\ args.depth = 2
  /\ traversals # <<>>
  /\ Len(traversals) < Len(AtNextDepth(args))

(***************************************************************************)
(* Several calls of generate_traversals                                    *)
(***************************************************************************)
MaxCalls == 3

\* the engines of the process: TraversalEngine(quiet=True) and
\* TraversalEngine(quiet=False)
Engines == {[id |-> "first", quiet |-> TRUE], [id |-> "second", quiet |-> FALSE]}

\* the arguments of the calls: the method simple for the least and the
\* greatest depth, the method non_recursive, and every method together at
\* one depth
CallInputs ==
  {a \in GenInputs :
     /\ a.os_type = "unix" /\ ~a.extra_files /\ a.extension = <<>>
     /\ a.specific_file = <<"/", "e", "t", "c", "/", "p", "a", "s", "s", "w", "d">>
     /\ \/ a.detection_method = "simple" /\ a.bisection_depth = 0 /\ a.depth \in {1, MaxDepth}
        \/ a.detection_method = "non_recursive" /\ a.bisection_depth = 0 /\ a.depth = MaxDepth
        \/ a.detection_method = "any" /\ a.bisection_depth = a.depth /\ a.depth = MaxDepth}

EngInit ==
  /\ history = <<>>
  /\ genIdle /\ bisIdle /\ drvIdle /\ sigIdle /\ pktIdle /\ cliIdle
  /\ sockIdle /\ apiIdle

\* a call that keeps its list of targets between the calls of an engine:
\* what an earlier call on the engine returned comes first
Call_keeps_list ==
  /\ Len(history) < MaxCalls
  /\ \E engine \in Engines, a \in CallInputs :
       history' = Append(history,
         [engine |-> engine.id, args |-> a,
          returned |->
            Flat([n \in DOMAIN history |->
                    IF history[n].engine = engine.id THEN history[n].returned ELSE <<>>])
            \o Strings(generate_traversals(a.os_type, a.depth, a.specific_file,
                                           a.extra_files, a.extension,
                                           a.bisection_depth, TRUE, a.detection_method))])
  /\ UNCHANGED <<genVars, bisVars, drvVars, sigVars, pktVars, cliVars, sockVars, apiVars>>

\* engine.generate_traversals(...): the engine reads its constants and its
\* flag quiet (which only decides what is printed) and assigns nothing
Call ==
  /\ Len(history) < MaxCalls
  /\ \E engine \in Engines, a \in CallInputs :
       history' = Append(history,
         [engine |-> engine.id, args |-> a,
          returned |-> Strings(generate_traversals(a.os_type, a.depth, a.specific_file,
                                                  a.extra_files, a.extension,
                                                  a.bisection_depth, TRUE, a.detection_method))])
  /\ UNCHANGED <<genVars, bisVars, drvVars, sigVars, pktVars, cliVars, sockVars, apiVars>>

EngNext == Call

SpecEng == EngInit /\ [][EngNext]_vars

RECURSIVE Log2(_)
\* floor(log2(n)) for n >= 1
Log2(n) == IF n <= 1 THEN 0 ELSE 1 + Log2(n \div 2)

\* floor(log2(max_depth - min_depth + 1)) + 1, and 0 for an empty range
MostTested(a) ==
  IF a.max_depth < a.min_depth THEN 0
  ELSE Log2(a.max_depth - a.min_depth + 1) + 1

\* an iteration of the loop: a depth was tested
Iteration == asked' # asked

\* C27: every iteration of the loop of find_exact_depth replaces
\* [left, right] by a strictly smaller sub-interval (left never decreases,
\* right never increases), and for every tester the search halts after
\* testing at most floor(log2(max_depth - min_depth + 1)) + 1 depths: no
\* more depths than that are ever tested, and once that many are tested
\* the interval is empty, which ends the loop.
C27_ShrinksAndHalts ==
  /\ [][Iteration => /\ left <= left' /\ right' <= right
                     /\ right' - left' < right - left]_vars
  /\ [](/\ Len(asked) <= MostTested(bargs)
        /\ Len(asked) = MostTested(bargs) => left > right)

\* a search over four depths that returned after testing three of them
C27_Witness ==
  /\ bpc = "returned"
  /\ bargs.max_depth - bargs.min_depth + 1 = 4
  /\ Len(asked) = 3 /\ Len(asked) = MostTested(bargs)

(***************************************************************************)
(* The bisection search with a tester whose calls can fail                 *)
(***************************************************************************)
\* A tester whose call fails on the payloads of the set fails.  The
\* testers of the fuzzers (HTTPBisectionTester and the others) wrap the
\* call in try / except Exception: return False; a tester of the caller
\* that implements VulnerabilityTester may let the exception out.
FailingTesters(G) ==
  {[answers |-> UNION {G[d] : d \in D}, fails |-> UNION {G[d] : d \in F},
    catches |-> c] :
     D \in SUBSET BisectDepths, F \in {{d} : d \in BisectDepths}, c \in BOOLEAN}

\* tester.test_vulnerability(traversal): "true", "false", or "raised" when
\* the exception leaves the call
test_vulnerability_call(t, traversal) ==
  IF traversal \in t.fails
  THEN IF t.catches THEN "false" ELSE "raised"
  ELSE IF traversal \in t.answers THEN "true" ELSE "false"

\* for traversal in traversals: if tester.test_vulnerability(traversal):
\* ... break -- the outcome of the first call that is not false
inner_loop(t, payloads) ==
  LET stops == {n \in DOMAIN payloads : test_vulnerability_call(t, payloads[n]) # "false"}
  IN IF stops = {} THEN "false"
     ELSE test_vulnerability_call(t, payloads[CHOOSE n \in stops : \A o \in stops : n <= o])

\* the inner loop for the depth mid of the state
Tested == inner_loop(tester, bisection_traversals(bargs, midpoint(left, right)))

TstInit ==
  /\ bpc = "loop"
  /\ bargs \in [min_depth : BisectDepths, max_depth : {MaxBisect},
                os_type : {"unix"}, specific_file : {<<"/", "e", "t", "c", "/", "p", "a", "s", "s", "w", "d">>}, extension : {<<>>}]
  /\ \E G \in {GeneratedFor(bargs)} : tester \in FailingTesters(G)
  /\ left = bargs.min_depth
  /\ right = bargs.max_depth
  /\ exact_depth = 0
  /\ asked = <<>>
  /\ found = 0
  /\ genIdle /\ drvIdle /\ otherIdle

\* one iteration of "while left <= right"; an exception of the tester is
\* caught nowhere in find_exact_depth and ends the call
TestDepth ==
  /\ bpc = "loop"
  /\ left <= right
  /\ \E outcome \in {Tested} :
       /\ asked' = Append(asked, [depth |-> midpoint(left, right), outcome |-> outcome])
       /\ CASE outcome = "true" ->
                 /\ exact_depth' = midpoint(left, right)
                 /\ right' = midpoint(left, right) - 1
                 /\ UNCHANGED <<bpc, left>>
            [] outcome = "false" ->
                 /\ left' = midpoint(left, right) + 1
                 /\ UNCHANGED <<bpc, right, exact_depth>>
            [] outcome = "raised" ->
                 /\ bpc' = "raised"
                 /\ UNCHANGED <<left, right, exact_depth>>
  /\ UNCHANGED <<tester, bargs, found, genVars, drvVars, otherVars>>

TstNext == TestDepth \/ BisectReturn

SpecTst == TstInit /\ [][TstNext]_vars

RECURSIVE SearchFrom(_, _, _, _, _)
\* what the search returns from the interval [l, r] when the tester answers
\* true exactly on the payloads of the set V
SearchFrom(a, V, l, r, e) ==
  IF l > r THEN e
  ELSE IF \E t \in StringSet(bisection_traversals(a, midpoint(l, r))) : t \in V
       THEN SearchFrom(a, V, l, midpoint(l, r) - 1, midpoint(l, r))
       ELSE SearchFrom(a, V, midpoint(l, r) + 1, r, e)

\* C28: a call of the tester that fails counts as "not vulnerable" for its
\* payload: the search is never ended by it, and it returns what it
\* returns for the tester that answers false on these payloads.
C28_FailedCallIsNotVulnerable ==
  /\ bpc # "raised"
  /\ bpc = "returned" =>
       found = SearchFrom(bargs, tester.answers \ tester.fails,
                          bargs.min_depth, bargs.max_depth, 0)

(***************************************************************************)
(* The socket of a probe                                                   *)
(***************************************************************************)
SockProbes ==
  {[protocol |-> "ftp", ssl_enabled |-> FALSE],
   [protocol |-> "tftp", ssl_enabled |-> FALSE],
   [protocol |-> "payload", ssl_enabled |-> FALSE],
   [protocol |-> "payload", ssl_enabled |-> TRUE]}

\* the variables a probe leaves alone
sockRest == <<genVars, bisVars, drvVars, sigVars, pktVars, cliVars, engVars, apiVars>>

SockInit ==
  /\ ppc = "start" /\ probe \in SockProbes /\ conn = "none" /\ path = <<>>
  /\ genIdle /\ bisIdle /\ drvIdle /\ sigIdle /\ pktIdle /\ cliIdle
  /\ engIdle /\ apiIdle

\* the operation done, with its outcome
Did(operation, outcome) ==
  path' = Append(path, [operation |-> operation, outcome |-> outcome])

\* ftp = ftplib.FTP(); ftp.connect(host, port, timeout): refused, no socket
\* is left; with the greeting 421 the socket is connected
FtpConnect ==
  /\ ppc = "start" /\ probe.protocol = "ftp"
  /\ \E outcome \in {"ok", "refused", "error_temp"} :
       /\ Did("connect", outcome)
       /\ conn' = IF outcome = "refused" THEN "none" ELSE "open"
       /\ ppc' = IF outcome = "ok" THEN "login" ELSE "finally"
  /\ UNCHANGED <<probe, sockRest>>

\* ftp.login(username, password)
FtpLogin ==
  /\ ppc = "login"
  /\ \E outcome \in {"ok", "error_perm", "timeout"} :
       /\ Did("login", outcome)
       /\ ppc' = IF outcome = "ok" THEN "retr" ELSE "finally"
  /\ UNCHANGED <<probe, conn, sockRest>>

\* ftp.retrbinary(...) in the inner try: error_perm is handled there and
\* the probe goes on to ftp.quit(); any other exception leaves the block
FtpRetr ==
  /\ ppc = "retr"
  /\ \E outcome \in {"ok", "error_perm", "error_temp", "timeout"} :
       /\ Did("retrbinary", outcome)
       /\ ppc' = IF outcome \in {"ok", "error_perm"} THEN "quit" ELSE "finally"
  /\ UNCHANGED <<probe, conn, sockRest>>

\* FTP.quit: resp = self.voidcmd('QUIT'); self.close() -- the socket is
\* closed when the command was answered, and not when it raised
quit(outcome) == IF outcome = "ok" THEN "closed" ELSE "open"

\* ftp.quit() at the end of the try block
FtpQuit ==
  /\ ppc = "quit"
  /\ \E outcome \in QuitOutcomes :
       /\ Did("quit", outcome)
       /\ conn' = quit(outcome)
  /\ ppc' = "finally"
  /\ UNCHANGED <<probe, sockRest>>

\* finally: if ftp: try: ftp.quit() except: pass -- without a socket (never
\* connected, or closed by the first quit) the call raises; return result
FtpFinally ==
  /\ ppc = "finally" /\ probe.protocol = "ftp"
  /\ IF conn = "open"
     THEN \E outcome \in QuitOutcomes :
            /\ Did("finally_quit", outcome)
            /\ conn' = quit(outcome)
     ELSE /\ Did("finally_quit", "exception")
          /\ UNCHANGED conn
  /\ ppc' = "returned"
  /\ UNCHANGED <<probe, sockRest>>

\* sock = socket.socket(...); sock.settimeout(...), and for the payload
\* fuzzer with ssl_enabled context.wrap_socket(sock)
SockOpen ==
  /\ ppc = "start" /\ probe.protocol \in {"tftp", "payload"}
  /\ \E outcome \in {"ok"} \cup (IF probe.ssl_enabled THEN {"ssl_error"} ELSE {}) :
       /\ Did("socket", outcome)
       /\ ppc' = IF outcome = "ok" THEN "exchange" ELSE "finally"
  /\ conn' = "open"
  /\ UNCHANGED <<probe, sockRest>>

\* the rest of the try block: sendto and recvfrom, or connect, sendall and
\* the recv loop, with what the parsing of the answer does
SockExchange ==
  /\ ppc = "exchange"
  /\ \E outcome \in {"ok", "protocol_error", "refused", "timeout", "exception"} :
       Did(IF probe.protocol = "tftp" THEN "sendto_recvfrom" ELSE "connect_send_recv",
           outcome)
  /\ ppc' = "finally"
  /\ UNCHANGED <<probe, conn, sockRest>>

\* finally: if sock: sock.close() (inside try / except in the payload
\* fuzzer); return result
SockClose ==
  /\ ppc = "finally" /\ probe.protocol \in {"tftp", "payload"}
  /\ Did("close", "ok")
  /\ conn' = "closed"
  /\ ppc' = "returned"
  /\ UNCHANGED <<probe, sockRest>>

\* after the return nothing refers to the FTP object: the interpreter
\* closes its socket when it collects the object
Collect ==
  /\ ppc = "returned" /\ conn = "open"
  /\ ppc' = "collected"
  /\ conn' = "closed"
  /\ UNCHANGED <<probe, path, sockRest>>

SockNext ==
  \/ FtpConnect \/ FtpLogin \/ FtpRetr \/ FtpQuit \/ FtpFinally
  \/ SockOpen \/ SockExchange \/ SockClose \/ Collect

SpecSock == SockInit /\ [][SockNext]_vars

\* C29: every FTP, TFTP and payload probe closes the connection it opened
\* on every exit path, so that no socket it opened is open when the probe
\* returns.
C29_ClosedOnReturn == ppc = "returned" => conn # "open"

(***************************************************************************)
(* The scans of the REST API                                               *)
(***************************************************************************)
MaxScans == 3

\* scan_id = str(uuid.uuid4()): an id is never issued twice
ScanIds == 1..MaxScans

\* the variables the API leaves alone
apiRest == <<genVars, bisVars, drvVars, sigVars, pktVars, cliVars, engVars, sockVars>>

ApiInit ==
  /\ scan_results = <<>> /\ tasks = <<>> /\ deleted = {}
  /\ genIdle /\ bisIdle /\ drvIdle /\ sigIdle /\ pktIdle /\ cliIdle
  /\ engIdle /\ sockIdle

\* d[key] = value
SetItem(d, key, value) ==
  [k \in DOMAIN d \cup {key} |-> IF k = key THEN value ELSE d[k]]

\* del d[key]
DelItem(d, key) == [k \in DOMAIN d \ {key} |-> d[k]]

\* POST /scan/http: the entry is written and the task is handed to
\* BackgroundTasks, which starts it after the response was sent
scan_http ==
  /\ \E scan_id \in ScanIds \ DOMAIN tasks :
       /\ scan_results' = SetItem(scan_results, scan_id, [status |-> "running", error |-> <<>>])
       /\ tasks' = SetItem(tasks, scan_id, "queued")
  /\ UNCHANGED <<deleted, apiRest>>

\* DELETE /scan/{scan_id}: 404 for an unknown id, else del scan_results[scan_id]
delete_scan ==
  /\ \E scan_id \in DOMAIN scan_results :
       /\ scan_results' = DelItem(scan_results, scan_id)
       /\ deleted' = deleted \cup {scan_id}
  /\ UNCHANGED <<tasks, apiRest>>

\* The task run_http_scan.  HTTPFuzzer.generate_and_fuzz is an ordinary
\* function that ends in asyncio.run(self.fuzz_async(...)); called from the
\* task, inside the running event loop, asyncio.run raises RuntimeError
\* before anything is awaited, so the task runs from its start to its
\* handler without giving up the loop.  The handler, except Exception,
\* writes scan_results[scan_id]["status"]: a KeyError when the id is gone,
\* raised inside the handler and caught by nothing.
run_http_scan ==
  /\ \E scan_id \in DOMAIN tasks :
       /\ tasks[scan_id] = "queued"
       /\ IF scan_id \in DOMAIN scan_results
          THEN /\ scan_results' =
                    SetItem(scan_results, scan_id,
                            [status |-> "failed",
                             error |-> <<"a", "s", "y", "n", "c", "i", "o", ".", "r", "u", "n", "(", ")", " ", "c", "a", "n", "n", "o", "t", " ", "b", "e", " ", "c", "a", "l", "l", "e", "d", " ", "f", "r", "o", "m", " ", "a", " ", "r", "u", "n", "n", "i", "n", "g", " ", "e", "v", "e", "n", "t", " ", "l", "o", "o", "p">>])
               /\ tasks' = SetItem(tasks, scan_id, "done")
          ELSE /\ tasks' = SetItem(tasks, scan_id, "crashed")
               /\ UNCHANGED scan_results
  /\ UNCHANGED <<deleted, apiRest>>

ApiNext == scan_http \/ delete_scan \/ run_http_scan

SpecApi == ApiInit /\ [][ApiNext]_vars

\* C30: deleting a scan while its background task is still running is safe
\* under every interleaving: the task ends without an unhandled exception
\* and the deleted scan id is not created again in scan_results.
C30_DeleteWhileRunningIsSafe ==
  \A scan_id \in deleted :
    /\ tasks[scan_id] # "crashed"
    /\ scan_id \notin DOMAIN scan_results
====
